---- MODULE Spec2Model ----
(***************************************************************************)
(* Zone and facility assignment engine of acbm (src/src/acbm/assigning):   *)
(*   - primary_feasible.py : _get_possible_zones, fill_missing_zones       *)
(*   - primary_select.py   : select_zone, select_facility                  *)
(*   - work.py             : WorkZoneAssignment (iterative, optimization)  *)
(* Every function is modelled by an operator computed as the code computes *)
(* it; every call is an action that draws its arguments from small sets.   *)
(* Tables (DataFrames) are sequences or sets of records, dicts are         *)
(* functions, the sentinels "NA" / NaN / None are the value NA.            *)
(* Times are integers; time_tolerance is a whole number of percent, so the *)
(* window test  t >= T - tol*T  is  100*t >= 100*T - tol*T  exactly.       *)
(***************************************************************************)
EXTENDS Integers, Sequences, FiniteSets, TLC

VARIABLES
    pc,                   \* position of the modelled call
    activity,             \* the activity row handed to the row-wise functions
    activities_per_zone,  \* supply table: rows OA21CD | activity | counts | floor_area
    travel_times,         \* travel-time table: rows OA21CD_from | OA21CD_to | travel_time_p50
    travel_times_est,     \* estimated times: insertion-ordered dict (from, to) -> times
    possible_zones,       \* dict activity key -> dict origin -> list of zones
    facilities_gdf,       \* facility table: rows id | zone | activities | floor_area
    args,                 \* keyword arguments of the call
    ties,                 \* order in which the sort of the build leaves equal keys
    result,               \* value returned by the call
    activities_to_assign, \* WorkZoneAssignment.activities_to_assign
    actual_flows,         \* WorkZoneAssignment.actual_flows
    remaining_flows,      \* WorkZoneAssignment.remaining_flows
    total_flows,          \* WorkZoneAssignment.total_flows
    percentages,          \* WorkZoneAssignment.percentages
    assignments,          \* rows appended by the running strategy
    cursor,               \* number of (activity, origin) pairs the loop has processed
    weighted_made,        \* per OD pair, the "Weighted" rows appended since construction
    activity_chains,      \* the activity table handed to get_possible_zones
    results               \* get_possible_zones.results: dict activity key -> dict;
                          \* in the education script, the Series the fill stage's
                          \* apply returns: row label -> value

vars == <<pc, activity, activities_per_zone, travel_times, travel_times_est,
          possible_zones, facilities_gdf, args, ties, result,
          activities_to_assign, actual_flows, remaining_flows, total_flows,
          percentages, assignments, cursor, weighted_made, activity_chains,
          results>>

chainVars == <<activity_chains, results>>
feasibleVars == <<activity, activities_per_zone, travel_times, ties>>
workVars == <<activities_to_assign, actual_flows, remaining_flows, total_flows,
              percentages, assignments, cursor, weighted_made>>

(***************************************************************************)
(* Bounds of the model and value domains                                   *)
(***************************************************************************)
MaxEdges == 2          \* rows of the travel-time table
MaxSupplyRows == 2     \* rows of the supply table

NA == "NA"
Idle == "idle"         \* value of a variable the specification does not use

Zones == {"Z1", "Z2", "Z3"}
Categories == {"education_school", "education_university", "shop"}
Weights == {0, 1}
EdgeTimes == {8, 12, 15}
ReportedTimes == {10, 12}
Tolerances == {0, 20, 50}
TieOrders == {"first", "last"}

EmptyDict == <<>>

Abs(x) == IF x < 0 THEN 0 - x ELSE x

Range(f) == {f[i] : i \in DOMAIN f}

SeqsUpTo(S, n) == UNION {[1..k -> S] : k \in 0..n}

SubsetsUpTo(S, n) == UNION {{Range(f) : f \in [1..k -> S]} : k \in 0..n}

SupplyRows ==
    [OA21CD : Zones, activity : Categories, counts : Weights, floor_area : Weights]

ActivityRows ==
    [name : {1}, OA21CD : {"Z1"}, mode : {"car"}, TripTotalTime : ReportedTimes,
     education_type : {"education_school"}, dzone : {NA}]

(***************************************************************************)
(* primary_feasible.py : _get_possible_zones                               *)
(***************************************************************************)
\* travel_times[travel_times["OA21CD_from"] == origin_zone]
FilterOrigin(tt, origin_zone) ==
    SelectSeq(tt, LAMBDA e : e.OA21CD_from = origin_zone)

\* activities_per_zone[activities_per_zone["activity"] == activity_purpose]["OA21CD"]
ZonesWithActivity(apz, activity_purpose) ==
    {r.OA21CD : r \in {s \in apz : s.activity = activity_purpose}}

\* travel_times_filtered_origin_mode[OA21CD_to.isin(filtered_activities_per_zone.OA21CD)]
FilterByActivity(rows, apz, activity_purpose) ==
    SelectSeq(rows, LAMBDA e : e.OA21CD_to \in ZonesWithActivity(apz, activity_purpose))

\* Variant with an open window: times on its two ends are left out.
InWindowOpen(t, travel_time, time_tolerance) ==
    /\ 100 * t > 100 * travel_time - time_tolerance * travel_time
    /\ 100 * t < 100 * travel_time + time_tolerance * travel_time

\* travel_time - tol * travel_time <= travel_time_p50 <= travel_time + tol * travel_time
InWindow(t, travel_time, time_tolerance) ==
    /\ 100 * t >= 100 * travel_time - time_tolerance * travel_time
    /\ 100 * t <= 100 * travel_time + time_tolerance * travel_time

FilterTime(rows, travel_time, time_tolerance) ==
    SelectSeq(rows, LAMBDA e : InWindow(e.travel_time_p50, travel_time, time_tolerance))

\* Variant that sorts in descending order: the row farthest from the reported time.
FarthestRow(rows, travel_time, kind) ==
    IF rows = <<>> THEN <<>>
    ELSE LET worst == {i \in 1..Len(rows) : \A j \in 1..Len(rows) :
                          Abs(rows[i].travel_time_p50 - travel_time)
                            >= Abs(rows[j].travel_time_p50 - travel_time)}
         IN  <<rows[CHOOSE i \in worst : \A j \in worst : i <= j]>>

\* Variant that keeps the first row without sorting by the difference.
FirstRow(rows, travel_time, kind) ==
    IF rows = <<>> THEN <<>> ELSE <<rows[1]>>

\* (rows["travel_time_p50"] - travel_time).abs().argsort()[:1] : the position of a
\* row of least absolute difference; which of several equal rows comes first is
\* left to the sort, `kind` is the order the build's sort produces.
ClosestRow(rows, travel_time, kind) ==
    IF rows = <<>> THEN <<>>
    ELSE LET best == {i \in 1..Len(rows) : \A j \in 1..Len(rows) :
                         Abs(rows[i].travel_time_p50 - travel_time)
                           <= Abs(rows[j].travel_time_p50 - travel_time)}
             first == CHOOSE i \in best : \A j \in best : i <= j
             last == CHOOSE i \in best : \A j \in best : i >= j
         IN  <<rows[IF kind = "first" THEN first ELSE last]>>

\* rows.groupby("OA21CD_from")["OA21CD_to"].apply(list).to_dict()
GroupToDict(rows) ==
    [o \in {rows[i].OA21CD_from : i \in 1..Len(rows)} |->
        LET mine == SelectSeq(rows, LAMBDA e : e.OA21CD_from = o)
        IN  [i \in 1..Len(mine) |-> mine[i].OA21CD_to]]

\* Variant without the closest-row relaxation: the window filter is returned as is.
GetPossibleZonesNoRelax(act, tt, apz, filter_by_activity, time_tolerance, kind) ==
    LET from_origin == FilterOrigin(tt, act.OA21CD)
        rows == IF filter_by_activity
                THEN FilterByActivity(from_origin, apz, act.education_type)
                ELSE from_origin
    IN  GroupToDict(FilterTime(rows, act.TripTotalTime, time_tolerance))

_get_possible_zones(act, tt, apz, filter_by_activity, time_tolerance, kind) ==
    LET travel_time == act.TripTotalTime
        origin_zone == act.OA21CD
        activity_purpose == act.education_type
        from_origin == FilterOrigin(tt, origin_zone)
        travel_times_filtered_origin_mode ==
            IF filter_by_activity
            THEN FilterByActivity(from_origin, apz, activity_purpose)
            ELSE from_origin
        in_window == FilterTime(travel_times_filtered_origin_mode, travel_time,
                                time_tolerance)
        travel_times_filtered_time ==
            IF in_window = <<>>
            THEN ClosestRow(travel_times_filtered_origin_mode, travel_time, kind)
            ELSE in_window
    IN  GroupToDict(travel_times_filtered_time)

\* The candidate zones of a returned dict (all its lists together).
CandidateZones(d) == UNION {Range(d[o]) : o \in DOMAIN d}

(***************************************************************************)
(* Specification of the feasible-zone search                               *)
(***************************************************************************)
Edges ==
    [OA21CD_from : {"Z1"}, OA21CD_to : {"Z2", "Z3"}, travel_time_p50 : EdgeTimes]
      \cup {[OA21CD_from |-> "Z2", OA21CD_to |-> "Z3", travel_time_p50 |-> 8]}

FeasibleSupply ==
    {r \in SupplyRows : /\ r.counts = 1 /\ r.floor_area = 1
                        /\ r.OA21CD \in {"Z2", "Z3"}
                        /\ r.activity \in {"education_school", "shop"}}

InitFeasible ==
    /\ pc = "call"
    /\ activity \in ActivityRows
    /\ activities_per_zone \in SubsetsUpTo(FeasibleSupply, MaxSupplyRows)
    /\ travel_times \in SeqsUpTo(Edges, MaxEdges)
    /\ ties \in TieOrders
    /\ travel_times_est = Idle
    /\ possible_zones = Idle
    /\ facilities_gdf = Idle
    /\ args = Idle
    /\ result = Idle
    /\ activities_to_assign = Idle
    /\ actual_flows = Idle
    /\ remaining_flows = Idle
    /\ total_flows = Idle
    /\ percentages = Idle
    /\ assignments = Idle
    /\ cursor = 0
    /\ weighted_made = Idle
    /\ activity_chains = Idle
    /\ results = Idle

GetPossibleZonesRow ==
    /\ pc = "call"
    /\ \E f \in BOOLEAN, tol \in Tolerances :
         /\ args' = [filter_by_activity |-> f, time_tolerance |-> tol]
         /\ result' = _get_possible_zones(activity, travel_times,
                                          activities_per_zone, f, tol, ties)
    /\ pc' = "done"
    /\ UNCHANGED <<feasibleVars, travel_times_est, possible_zones, facilities_gdf,
                   chainVars>>
    /\ UNCHANGED workVars

NextFeasible == GetPossibleZonesRow

SpecFeasible == InitFeasible /\ [][NextFeasible]_vars

\* An edge of the table leaves the activity's origin zone.
HasOriginEdge ==
    \E i \in 1..Len(travel_times) : travel_times[i].OA21CD_from = activity.OA21CD

\* An edge leaves the origin zone and, when filter_by_activity is set, leads to a
\* zone that has a supply row of the activity's category.
HasUsableOriginEdge ==
    \E i \in 1..Len(travel_times) :
        /\ travel_times[i].OA21CD_from = activity.OA21CD
        /\ args.filter_by_activity =>
              \E r \in activities_per_zone :
                  /\ r.OA21CD = travel_times[i].OA21CD_to
                  /\ r.activity = activity.education_type

\* No edge from the origin (after the optional supply filter) lies in the window.
WindowEmpty(time_tolerance) ==
    \A i \in 1..Len(travel_times) :
        ~ /\ travel_times[i].OA21CD_from = activity.OA21CD
          /\ args.filter_by_activity =>
                \E r \in activities_per_zone :
                    /\ r.OA21CD = travel_times[i].OA21CD_to
                    /\ r.activity = activity.education_type
          /\ InWindow(travel_times[i].travel_time_p50, activity.TripTotalTime,
                      time_tolerance)

\* C1 (as claimed): _get_possible_zones returns a non-empty candidate list
\* whenever the table holds an edge from the activity's origin zone, for every
\* filter_by_activity and time_tolerance.
C1_NonEmptyWheneverOriginEdge ==
    (pc = "done" /\ HasOriginEdge) => CandidateZones(result) # {}

\* C1 (amended): _get_possible_zones returns a non-empty candidate list for the
\* origin zone whenever the table holds an edge from the origin zone whose
\* destination, when filter_by_activity is set, has a supply row of the
\* activity's category; for every time_tolerance.
C1_NonEmptyWheneverUsableEdge ==
    (pc = "done" /\ HasUsableOriginEdge) =>
        /\ DOMAIN result = {activity.OA21CD}
        /\ result[activity.OA21CD] # <<>>

\* C1 witness: filtering by activity, no edge in the window, the relaxation
\* kept one candidate.
C1_Witness ==
    /\ pc = "done"
    /\ args.filter_by_activity
    /\ HasUsableOriginEdge
    /\ WindowEmpty(args.time_tolerance)
    /\ Len(travel_times) = 2
    /\ Cardinality(CandidateZones(result)) = 1

\* C7: widening time_tolerance never shrinks the candidate set: every zone
\* returned with the tolerance of the call is returned with every larger one.
C7_ToleranceMonotone ==
    pc = "done" =>
        \A t2 \in Tolerances :
            args.time_tolerance <= t2 =>
                CandidateZones(result) \subseteq
                    CandidateZones(_get_possible_zones(activity, travel_times,
                        activities_per_zone, args.filter_by_activity, t2, ties))

\* C7 witness: the call relaxed to the closest edge, and a wider tolerance
\* returns that zone together with another one.
C7_Witness ==
    /\ pc = "done"
    /\ WindowEmpty(args.time_tolerance)
    /\ CandidateZones(result) # {}
    /\ \E t2 \in Tolerances :
          /\ args.time_tolerance < t2
          /\ ~WindowEmpty(t2)
          /\ CandidateZones(result) # CandidateZones(_get_possible_zones(activity,
                travel_times, activities_per_zone, args.filter_by_activity, t2, ties))

\* Edge i leaves the origin zone and passes the optional supply filter
IsUsableEdge(i) ==
    /\ travel_times[i].OA21CD_from = activity.OA21CD
    /\ args.filter_by_activity =>
          \E r \in activities_per_zone :
              /\ r.OA21CD = travel_times[i].OA21CD_to
              /\ r.activity = activity.education_type

\* reported*(1-tol) <= time of edge i <= reported*(1+tol), tol in percent
InClosedWindow(i) ==
    /\ (100 - args.time_tolerance) * activity.TripTotalTime
          <= 100 * travel_times[i].travel_time_p50
    /\ 100 * travel_times[i].travel_time_p50
          <= (100 + args.time_tolerance) * activity.TripTotalTime

\* Difference between the time of edge i and the reported time
TimeGap(i) == Abs(travel_times[i].travel_time_p50 - activity.TripTotalTime)

\* C19: when some edge from the origin (after the optional supply filter) has
\* its time in the closed window, _get_possible_zones returns, under the
\* origin zone, exactly the destinations of the edges inside the window.
C19_WindowDestinationsExactly ==
    (pc = "done" /\ \E i \in 1..Len(travel_times) :
                        IsUsableEdge(i) /\ InClosedWindow(i)) =>
        /\ DOMAIN result = {activity.OA21CD}
        /\ Range(result[activity.OA21CD]) =
              {travel_times[i].OA21CD_to :
                  i \in {j \in 1..Len(travel_times) :
                            IsUsableEdge(j) /\ InClosedWindow(j)}}

\* C19 witness: filtering by activity, one edge on the lower end of the window
\* is returned and a second usable edge outside the window is not.
C19_Witness ==
    /\ pc = "done"
    /\ args.filter_by_activity
    /\ args.time_tolerance = 20
    /\ activity.TripTotalTime = 10
    /\ Len(travel_times) = 2
    /\ IsUsableEdge(1) /\ IsUsableEdge(2)
    /\ travel_times[1].travel_time_p50 = 15
    /\ travel_times[2].travel_time_p50 = 8
    /\ travel_times[1].OA21CD_to # travel_times[2].OA21CD_to
    /\ result[activity.OA21CD] = <<travel_times[2].OA21CD_to>>

\* No usable edge has its time in the closed window
NoEdgeInWindow ==
    \A i \in 1..Len(travel_times) : ~(IsUsableEdge(i) /\ InClosedWindow(i))

\* The result is one candidate: the destination of a usable edge of least gap
OneClosestCandidate ==
    /\ DOMAIN result = {activity.OA21CD}
    /\ Len(result[activity.OA21CD]) = 1
    /\ \E i \in 1..Len(travel_times) :
          /\ IsUsableEdge(i)
          /\ result[activity.OA21CD][1] = travel_times[i].OA21CD_to
          /\ \A j \in 1..Len(travel_times) :
                IsUsableEdge(j) => TimeGap(i) <= TimeGap(j)

\* C20 (as claimed): when no edge lies inside the tolerance window,
\* _get_possible_zones returns exactly one candidate, the destination of an
\* origin edge (after the optional supply filter) of least absolute difference
\* between travel time and reported time.
C20_OneClosestWhenWindowEmpty ==
    (pc = "done" /\ NoEdgeInWindow) => OneClosestCandidate

\* C20 (amended): the same, when at least one edge leaves the origin zone
\* (after the optional supply filter); without such an edge the result is
\* the empty dict.
C20_OneClosestWhenWindowEmptyAndEdge ==
    (pc = "done" /\ NoEdgeInWindow) =>
        IF \E i \in 1..Len(travel_times) : IsUsableEdge(i)
        THEN OneClosestCandidate
        ELSE result = EmptyDict

\* C20 witness: two usable edges outside the window, the second one closer to
\* the reported time, and its destination is the one candidate.
C20_Witness ==
    /\ pc = "done"
    /\ NoEdgeInWindow
    /\ Len(travel_times) = 2
    /\ IsUsableEdge(1) /\ IsUsableEdge(2)
    /\ TimeGap(2) < TimeGap(1)
    /\ travel_times[1].OA21CD_to # travel_times[2].OA21CD_to
    /\ result[activity.OA21CD] = <<travel_times[2].OA21CD_to>>

(***************************************************************************)
(* primary_select.py : select_zone                                         *)
(***************************************************************************)
Return(v) == [kind |-> "return", value |-> v]
Raise(e) == [kind |-> "raise", value |-> e]

\* Variant that also lets the weighting "area" through.
AllowedWeightingsWide == {"floor_area", "counts", "none", "area"}

allowed_weightings == {"floor_area", "counts", "none"}

\* activities_per_zone["activity"].str.contains("education")
EducationCategories == {"education_school", "education_university"}

RECURSIVE SumFloorArea(_)
SumFloorArea(rows) ==
    IF rows = {} THEN 0
    ELSE LET r == CHOOSE x \in rows : TRUE
         IN  r.floor_area + SumFloorArea(rows \ {r})

RECURSIVE SumCounts(_)
SumCounts(rows) ==
    IF rows = {} THEN 0
    ELSE LET r == CHOOSE x \in rows : TRUE
         IN  r.counts + SumCounts(rows \ {r})

\* list(possible_zones[row.name].values())[0] ; the dicts are those built by
\* _get_possible_zones, which hold at most one origin
FirstOptions(d) == d[CHOOSE o \in DOMAIN d : TRUE]

\* Attempt 1: rows of the row's education type in a possible zone
OptionsExact(row, zone_list, apz) ==
    {r \in apz : r.activity = row.education_type /\ r.OA21CD \in Range(zone_list)}

\* Attempt 2: rows of any education type in a possible zone
OptionsEducation(zone_list, apz) ==
    {r \in apz : r.activity \in EducationCategories /\ r.OA21CD \in Range(zone_list)}

\* Attempt 3: rows of any activity in a possible zone
OptionsAny(zone_list, apz) == {r \in apz : r.OA21CD \in Range(zone_list)}

\* Variant of the cascade that stops after attempt 2.
OptionsTwoLevels(row, zone_list, apz) ==
    IF OptionsExact(row, zone_list, apz) # {} THEN OptionsExact(row, zone_list, apz)
    ELSE OptionsEducation(zone_list, apz)

\* Variant of the cascade that keeps the rows of attempt 2 beside a non-empty
\* attempt 1.
OptionsNoStop(row, zone_list, apz) ==
    IF OptionsEducation(zone_list, apz) # {} THEN OptionsEducation(zone_list, apz)
    ELSE OptionsAny(zone_list, apz)

\* The cascade of attempts 1-3: the first non-empty set of rows
Options(row, zone_list, apz) ==
    IF OptionsExact(row, zone_list, apz) # {} THEN OptionsExact(row, zone_list, apz)
    ELSE IF OptionsEducation(zone_list, apz) # {} THEN OptionsEducation(zone_list, apz)
    ELSE OptionsAny(zone_list, apz)

\* Variant in which floor_area with a zero floor-area sum draws from all rows.
SampledUniformOnZeroArea(options, weighting) ==
    IF weighting = "floor_area" THEN
        IF SumFloorArea(options) # 0 THEN {r \in options : r.floor_area > 0}
        ELSE options
    ELSE IF weighting = "counts" THEN
        IF SumCounts(options) # 0 THEN {r \in options : r.counts > 0}
        ELSE options
    ELSE options

\* options.sample(1, weights=col): a row of positive weight; options.sample(1):
\* any row. The set of rows the draw can produce.
Sampled(options, weighting) ==
    IF weighting = "floor_area" THEN
        IF SumFloorArea(options) # 0 THEN {r \in options : r.floor_area > 0}
        ELSE IF SumCounts(options) # 0 THEN {r \in options : r.counts > 0}
        ELSE options
    ELSE IF weighting = "counts" THEN
        IF SumCounts(options) # 0 THEN {r \in options : r.counts > 0}
        ELSE options
    ELSE options

\* The set of outcomes of select_zone(row, possible_zones, activities_per_zone,
\* weighting): the values it can return, or the exception it raises.
select_zone(row, pz, apz, weighting) ==
    IF weighting \notin allowed_weightings THEN {Raise("ValueError")}
    ELSE IF row.name \notin DOMAIN pz THEN {Return(NA)}        \* except KeyError
    ELSE IF DOMAIN pz[row.name] = {} THEN {Return(NA)}          \* no options
    ELSE LET options == Options(row, FirstOptions(pz[row.name]), apz)
         IN  IF options = {} THEN {Return(NA)}
             ELSE {Return(r.OA21CD) : r \in Sampled(options, weighting)}

(***************************************************************************)
(* Specification of the zone selection                                     *)
(***************************************************************************)
MaxZoneList == 2       \* length of a list of possible zones

\* Lists of distinct elements of S, of length at most n
ListsUpTo(S, n) ==
    {q \in SeqsUpTo(S, n) : \A i, j \in 1..Len(q) : i # j => q[i] # q[j]}

\* Supply rows: a zone without facilities of a category has no floor area
SelectSupply == {r \in SupplyRows : r.counts = 0 => r.floor_area = 0}

\* The dicts _get_possible_zones builds: {} or {origin: list}
PossibleDicts ==
    {EmptyDict} \cup
    {[o \in {"Z1"} |-> q] : q \in ListsUpTo({"Z2", "Z3"}, MaxZoneList)}

Weightings == allowed_weightings \cup {"area"}

InitSelectZone ==
    /\ pc = "call"
    /\ activity \in {a \in ActivityRows : a.TripTotalTime = 10}
    /\ activities_per_zone \in SubsetsUpTo(SelectSupply, MaxSupplyRows)
    /\ possible_zones \in {EmptyDict} \cup {[k \in {1} |-> d] : d \in PossibleDicts}
    /\ travel_times = Idle
    /\ ties = Idle
    /\ travel_times_est = Idle
    /\ facilities_gdf = Idle
    /\ args = Idle
    /\ result = Idle
    /\ activities_to_assign = Idle
    /\ actual_flows = Idle
    /\ remaining_flows = Idle
    /\ total_flows = Idle
    /\ percentages = Idle
    /\ assignments = Idle
    /\ cursor = 0
    /\ weighted_made = Idle
    /\ activity_chains = Idle
    /\ results = Idle

SelectZoneCall ==
    /\ pc = "call"
    /\ \E w \in Weightings :
         /\ args' = [weighting |-> w]
         /\ result' \in select_zone(activity, possible_zones, activities_per_zone, w)
    /\ pc' = "done"
    /\ UNCHANGED <<feasibleVars, travel_times_est, possible_zones, facilities_gdf,
                   chainVars>>
    /\ UNCHANGED workVars

NextSelectZone == SelectZoneCall

SpecSelectZone == InitSelectZone /\ [][NextSelectZone]_vars

\* The list of possible zones select_zone reads for the row (empty when the
\* key is missing or the mapping is empty).
RowZoneList ==
    IF activity.name \notin DOMAIN possible_zones THEN <<>>
    ELSE IF DOMAIN possible_zones[activity.name] = {} THEN <<>>
    ELSE possible_zones[activity.name]["Z1"]

\* C6: select_zone returns "NA" exactly when the key is missing from
\* possible_zones, its mapping is empty, or no supply row at all has its zone
\* in the feasible list; otherwise it returns the zone of a supply row whose
\* zone is in the feasible list.
C6_NAExactlyWhenNoSupplyInList ==
    (pc = "done" /\ result.kind = "return") =>
        /\ result.value = NA <=>
              \/ activity.name \notin DOMAIN possible_zones
              \/ DOMAIN possible_zones[activity.name] = {}
              \/ ~ \E r \in activities_per_zone :
                      \E i \in 1..Len(RowZoneList) : RowZoneList[i] = r.OA21CD
        /\ result.value # NA =>
              /\ \E i \in 1..Len(RowZoneList) : RowZoneList[i] = result.value
              /\ \E r \in activities_per_zone : r.OA21CD = result.value

\* C6 witness: the feasible zones {Z2, Z3} have supply rows of an unrelated
\* category only, the education rows lie elsewhere, and a zone is returned.
C6_Witness ==
    /\ pc = "done"
    /\ result.kind = "return"
    /\ result.value \in {"Z2", "Z3"}
    /\ Len(RowZoneList) = 2
    /\ \E r \in activities_per_zone :
          r.OA21CD = "Z1" /\ r.activity = activity.education_type
    /\ \A r \in activities_per_zone :
          r.OA21CD \in {"Z2", "Z3"} => r.activity = "shop"

\* C11: select_zone raises ValueError for every weighting outside floor_area,
\* counts, none, whatever the other inputs are, and returns nothing then.
C11_InvalidWeightingRaises ==
    (pc = "done" /\ args.weighting \notin {"floor_area", "counts", "none"}) =>
        /\ result.kind = "raise"
        /\ result.value = "ValueError"

\* C11 witness: an unsupported weighting for an activity whose key is missing
\* from possible_zones, and the call raised.
C11_Witness ==
    /\ pc = "done"
    /\ args.weighting = "area"
    /\ activity.name \notin DOMAIN possible_zones
    /\ result.kind = "raise"

\* The candidate rows select_zone samples from for the row
CandidateRows == Options(activity, RowZoneList, activities_per_zone)

\* The call used weighting="floor_area" on candidates without any floor area
ZeroAreaCall ==
    /\ pc = "done"
    /\ args.weighting = "floor_area"
    /\ CandidateRows # {}
    /\ \A r \in CandidateRows : r.floor_area = 0

\* C17 (as claimed): with weighting="floor_area" and a zero floor-area sum the
\* draw is uniform: the zone of every candidate row can be returned, whatever
\* its counts value.
C17_ZeroAreaSamplesUniformly ==
    ZeroAreaCall =>
        \A r \in CandidateRows :
            Return(r.OA21CD) \in select_zone(activity, possible_zones,
                                             activities_per_zone, "floor_area")

\* C17 (amended): with weighting="floor_area" and a zero floor-area sum the
\* draw is weighted by counts when some candidate has a count (exactly the
\* zones of candidates with a positive count can be returned), and uniform
\* over all candidates only when the counts sum is zero too.
C17_ZeroAreaFallsBackToCounts ==
    ZeroAreaCall =>
        LET drawn == IF \E r \in CandidateRows : r.counts > 0
                     THEN {r \in CandidateRows : r.counts > 0}
                     ELSE CandidateRows
        IN  /\ result.kind = "return"
            /\ \E r \in drawn : result.value = r.OA21CD
            /\ \A r \in drawn :
                  Return(r.OA21CD) \in select_zone(activity, possible_zones,
                                                   activities_per_zone, "floor_area")

\* C17 witness: two candidates without floor area in different zones, one with
\* a count and one without, and the zone of the counted one was returned.
C17_Witness ==
    /\ ZeroAreaCall
    /\ \E r1, r2 \in CandidateRows :
          /\ r1.OA21CD # r2.OA21CD
          /\ r1.counts > 0 /\ r2.counts = 0
          /\ result.value = r1.OA21CD

\* Zones of the feasible list with a supply row of the row's education type
ExactZones ==
    {r.OA21CD : r \in {x \in activities_per_zone :
                          /\ x.activity = activity.education_type
                          /\ \E i \in 1..Len(RowZoneList) : RowZoneList[i] = x.OA21CD}}

\* Zones of the feasible list with a supply row of an education category
EducationZones ==
    {r.OA21CD : r \in {x \in activities_per_zone :
                          /\ x.activity \in {"education_school", "education_university"}
                          /\ \E i \in 1..Len(RowZoneList) : RowZoneList[i] = x.OA21CD}}

\* C21: the cascade of select_zone stops at the first non-empty level: when
\* some feasible zone has a supply row of the activity's own category the
\* returned zone is one of those zones; otherwise, when some feasible zone has
\* a supply row of an education category, the returned zone is one of those;
\* only otherwise is a zone with an unrelated category returned.
C21_CascadeStopsAtFirstLevel ==
    (pc = "done" /\ result.kind = "return") =>
        /\ ExactZones # {} => result.value \in ExactZones
        /\ (ExactZones = {} /\ EducationZones # {}) => result.value \in EducationZones
        /\ (result.value # NA /\ result.value \notin EducationZones) =>
              EducationZones = {}

\* C21 witness: the feasible zones are Z2 and Z3, Z2 holds a row of the own
\* category and Z3 a row of the other education category, and Z2 was returned.
C21_Witness ==
    /\ pc = "done"
    /\ result.kind = "return"
    /\ Len(RowZoneList) = 2
    /\ ExactZones = {"Z2"}
    /\ EducationZones = {"Z2", "Z3"}
    /\ result.value = "Z2"

(***************************************************************************)
(* primary_feasible.py / primary_select.py : fill_missing_zones            *)
(***************************************************************************)
\* Variant that also accepts the mode "bus".
AcceptableModesWide == {"car", "pt", "walk", "cycle", "bus"}

acceptable_modes == {"car", "pt", "walk", "cycle"}

TimeKeys == {"time_car", "time_pt", "time_walk", "time_cycle", "time_average"}

\* f"time_{mode}" for an acceptable mode; "time_average" when mode is None
TimeKey(mode) ==
    CASE mode = "car" -> "time_car"
      [] mode = "pt" -> "time_pt"
      [] mode = "walk" -> "time_walk"
      [] mode = "cycle" -> "time_cycle"
      [] OTHER -> "time_average"

\* filtered_dict: the entries from from_zone to a zone of to_zones, in the
\* iteration order of estimated_times
FilteredDict(estimated_times, from_zone, to_zones) ==
    SelectSeq(estimated_times,
              LAMBDA e : e.key[1] = from_zone /\ e.key[2] \in to_zones)

\* Variant of min() that keeps the last of several least items.
LastClosestItem(items, key, time) ==
    LET best == {i \in 1..Len(items) : \A j \in 1..Len(items) :
                    Abs(items[i].value[key] - time) <= Abs(items[j].value[key] - time)}
    IN  items[CHOOSE i \in best : \A j \in best : i >= j]

\* min(filtered_dict.items(), key=lambda item: abs(item[1][key] - time)) : the
\* first item, in iteration order, of least key
ClosestItem(items, key, time) ==
    LET best == {i \in 1..Len(items) : \A j \in 1..Len(items) :
                    Abs(items[i].value[key] - time) <= Abs(items[j].value[key] - time)}
    IN  items[CHOOSE i \in best : \A j \in best : i <= j]

_get_zones_using_time_estimate(estimated_times, from_zone, to_zones, time, mode) ==
    IF mode # NA /\ mode \notin acceptable_modes THEN Raise("ValueError")
    ELSE LET filtered_dict == FilteredDict(estimated_times, from_zone, to_zones)
         IN  IF filtered_dict = <<>> THEN Raise("ValueError")   \* min() of nothing
             ELSE Return(ClosestItem(filtered_dict, TimeKey(mode), time).key[2])

fill_missing_zones(act, travel_times_est_, apz, use_mode) ==
    LET activity_purpose == act.education_type
        from_zone == act.OA21CD
        to_zones == ZonesWithActivity(apz, activity_purpose)
        time == act.TripTotalTime
        mode == IF use_mode THEN act.mode ELSE NA
    IN  _get_zones_using_time_estimate(travel_times_est_, from_zone, to_zones,
                                       time, mode)

(***************************************************************************)
(* Specification of the estimate fallback                                  *)
(***************************************************************************)
MaxEstimates == 2      \* entries of the estimated-times dict

EstTimes == {8, 12}

EstKeys == {<<"Z1", "Z2">>, <<"Z1", "Z3">>, <<"Z2", "Z3">>}

\* Time dicts of an entry; the three slow modes share one estimate
EstValues ==
    {v \in [TimeKeys -> EstTimes] :
        v["time_walk"] = v["time_pt"] /\ v["time_cycle"] = v["time_pt"]}

\* Insertion-ordered dicts: sequences of entries with distinct keys
EstDicts ==
    {q \in SeqsUpTo([key : EstKeys, value : EstValues], MaxEstimates) :
        \A i, j \in 1..Len(q) : i # j => q[i].key # q[j].key}

FillSupply ==
    {r \in FeasibleSupply : r.OA21CD = "Z3" \/ r.activity = "education_school"}

FillActivities ==
    [name : {1}, OA21CD : {"Z1"}, mode : {"car", "pt", "bus"},
     TripTotalTime : ReportedTimes, education_type : {"education_school"},
     dzone : {NA}]

InitFill ==
    /\ pc = "call"
    /\ activity \in FillActivities
    /\ activities_per_zone \in SubsetsUpTo(FillSupply, MaxSupplyRows)
    /\ travel_times_est \in EstDicts
    /\ travel_times = Idle
    /\ ties = Idle
    /\ possible_zones = Idle
    /\ facilities_gdf = Idle
    /\ args = Idle
    /\ result = Idle
    /\ activities_to_assign = Idle
    /\ actual_flows = Idle
    /\ remaining_flows = Idle
    /\ total_flows = Idle
    /\ percentages = Idle
    /\ assignments = Idle
    /\ cursor = 0
    /\ weighted_made = Idle
    /\ activity_chains = Idle
    /\ results = Idle

FillMissingZonesCall ==
    /\ pc = "call"
    /\ \E u \in BOOLEAN :
         /\ args' = [use_mode |-> u]
         /\ result' = fill_missing_zones(activity, travel_times_est,
                                         activities_per_zone, u)
    /\ pc' = "done"
    /\ UNCHANGED <<feasibleVars, travel_times_est, possible_zones, facilities_gdf,
                   chainVars>>
    /\ UNCHANGED workVars

NextFill == FillMissingZonesCall

SpecFill == InitFill /\ [][NextFill]_vars

\* The estimate the call compares with TripTotalTime for entry i
UsedEstimate(i) ==
    IF args.use_mode
    THEN travel_times_est[i].value[TimeKey(activity.mode)]
    ELSE travel_times_est[i].value["time_average"]

\* Entry i leaves the activity's zone for a zone with a supply row of its category
IsFillCandidate(i) ==
    /\ travel_times_est[i].key[1] = activity.OA21CD
    /\ \E r \in activities_per_zone :
          /\ r.OA21CD = travel_times_est[i].key[2]
          /\ r.activity = activity.education_type

\* C8: fill_missing_zones returns, among the destinations with a supply row of
\* the activity's category and an estimated-time entry from the activity's
\* zone, the one minimising abs(estimated_time - TripTotalTime) (time_<mode>
\* when use_mode, else time_average); of several minimal destinations the one
\* that comes first in the iteration order of the estimated-times mapping.
C8_FillReturnsFirstClosest ==
    (pc = "done" /\ result.kind = "return") =>
        \E i \in 1..Len(travel_times_est) :
            /\ IsFillCandidate(i)
            /\ result.value = travel_times_est[i].key[2]
            /\ \A j \in 1..Len(travel_times_est) :
                  IsFillCandidate(j) =>
                     /\ Abs(UsedEstimate(i) - activity.TripTotalTime)
                          <= Abs(UsedEstimate(j) - activity.TripTotalTime)
                     /\ (Abs(UsedEstimate(i) - activity.TripTotalTime)
                          = Abs(UsedEstimate(j) - activity.TripTotalTime)) => i <= j

\* C8 witness: two candidate destinations tie for the least difference under
\* the mode's estimate, and the first of them is returned.
C8_Witness ==
    /\ pc = "done"
    /\ result.kind = "return"
    /\ args.use_mode
    /\ Len(travel_times_est) = 2
    /\ IsFillCandidate(1) /\ IsFillCandidate(2)
    /\ UsedEstimate(1) # UsedEstimate(2)
    /\ Abs(UsedEstimate(1) - activity.TripTotalTime)
         = Abs(UsedEstimate(2) - activity.TripTotalTime)
    /\ travel_times_est[1].value["time_average"] # UsedEstimate(1)
    /\ result.value = travel_times_est[1].key[2]

\* Some entry leaves the activity's zone for a zone that supplies its category
HasFillCandidate == \E i \in 1..Len(travel_times_est) : IsFillCandidate(i)

\* C12 (as claimed): fill_missing_zones raises, and returns no zone, for an
\* activity whose mode is not one of car, pt, walk, cycle.
C12_InvalidModeRaises ==
    (pc = "done" /\ activity.mode \notin {"car", "pt", "walk", "cycle"}) =>
        result.kind = "raise"

\* C12 (amended): fill_missing_zones called with use_mode=True raises
\* ValueError, and returns no zone, for an activity whose mode is not one of
\* car, pt, walk, cycle; with use_mode=False the mode is not read, and a zone
\* is returned whenever a candidate entry exists.
C12_InvalidModeRaisesWhenUsed ==
    (pc = "done" /\ activity.mode \notin {"car", "pt", "walk", "cycle"}) =>
        /\ args.use_mode => (result.kind = "raise" /\ result.value = "ValueError")
        /\ (~args.use_mode /\ HasFillCandidate) => result.kind = "return"

\* C12 witness: use_mode with the mode "bus"; a candidate entry exists, and the
\* call raised all the same.
C12_Witness ==
    /\ pc = "done"
    /\ args.use_mode
    /\ activity.mode = "bus"
    /\ HasFillCandidate
    /\ result.kind = "raise"

\* C13 (as claimed): when no supply zone matches the activity's category, or no
\* estimated-time entry leads from the activity's zone to a matching zone,
\* fill_missing_zones yields a no-data outcome and does not raise.
C13_SparsityNeverRaises ==
    (/\ pc = "done"
     /\ args.use_mode => activity.mode \in {"car", "pt", "walk", "cycle"}
     /\ ~HasFillCandidate) => result.kind = "return"

(***************************************************************************)
(* primary_select.py : select_facility                                     *)
(***************************************************************************)
NaN == "NaN"           \* a missing value (np.nan): pd.isna holds of it alone
None == "None"         \* an optional argument left out

\* Variant of the missing-value test that never answers yes.
IsNaNever(x) == FALSE

\* pd.isna(x)
isna(x) == x = NaN

\* column == value, element-wise: a missing value equals nothing
PdEq(a, b) == ~isna(a) /\ ~isna(b) /\ a = b

\* facilities_gdf[facilities_gdf[zone_col] == destination_zone]
FacilitiesInZone(gdf, destination_zone) ==
    {f \in Range(gdf) : PdEq(f.zone, destination_zone)}

\* rows[rows[type_col].apply(lambda x: wanted in x)]
OfType(rows, wanted) == {f \in rows : wanted \in f.activities}

\* neighboring_zones.get(destination_zone, [])
NeighborsOf(neighboring_zones, destination_zone) ==
    IF destination_zone \in DOMAIN neighboring_zones.dict
    THEN Range(neighboring_zones.dict[destination_zone])
    ELSE {}

\* Variant of the neighbour search that forgets the type filter.
NeighborFacilitiesAnyType(gdf, neighboring_zones, destination_zone, wanted) ==
    {f \in Range(gdf) : f.zone \in NeighborsOf(neighboring_zones, destination_zone)}

\* facilities of the wanted type in the zones neighbouring destination_zone
NeighborFacilities(gdf, neighboring_zones, destination_zone, wanted) ==
    OfType({f \in Range(gdf) :
               f.zone \in NeighborsOf(neighboring_zones, destination_zone)},
           wanted)

RECURSIVE SumFacilityArea(_)
SumFacilityArea(rows) ==
    IF rows = {} THEN 0
    ELSE LET f == CHOOSE x \in rows : TRUE
         IN  f.floor_area + SumFacilityArea(rows \ {f})

\* Step 2: the rows facilities_valid.sample(1, ...) can draw
SampledFacility(facilities_valid, gdf_sample_col) ==
    IF gdf_sample_col = "floor_area" /\ SumFacilityArea(facilities_valid) # 0
    THEN {f \in facilities_valid : f.floor_area > 0}
    ELSE facilities_valid

\* An optional dict argument: left out (None) or given
NoDict == [given |-> FALSE, dict |-> EmptyDict]
Given(d) == [given |-> TRUE, dict |-> d]

\* `x and ...` for an optional dict: given and not empty
TruthyDict(x) == x.given /\ DOMAIN x.dict # {}

\* `x and ...` for an optional string: given and not empty
TruthyStr(x) == x # None /\ x # ""

FacilityResult(v, steps) == [kind |-> "return", value |-> v, steps |-> steps]

\* Variant of the step guard that runs an enabled step after a step with rows.
UseStepAlways(valid, enabled) == enabled

\* `if facilities_valid.empty and <option>`: a step runs only on zero rows
UseStep(valid, enabled) == valid = {} /\ enabled

\* Variant of the fallback_type search that also looks in the neighbour zones.
FallbackWithNeighbors(gdf, facilities_in_zone, neighboring_zones, destination_zone, fallback_type) ==
    OfType(facilities_in_zone
             \cup {f \in Range(gdf) :
                     f.zone \in NeighborsOf(neighboring_zones, destination_zone)},
           fallback_type)

\* Step 3: facilities of fallback_type among facilities_in_zone (the frame of
\* the destination zone, not the one of the neighbour search)
FallbackFacilities(gdf, facilities_in_zone, neighboring_zones, destination_zone, fallback_type) ==
    OfType(facilities_in_zone, fallback_type)

\* The set of outcomes of select_facility; `steps` lists the searches the call
\* made (each is logged by the code), in order.
select_facility(row, gdf, fallback_type, fallback_to_random, neighboring_zones, gdf_sample_col) ==
    LET destination_zone == row.dzone
        wanted == row.education_type
        facilities_in_zone == FacilitiesInZone(gdf, destination_zone)
        valid1 == OfType(facilities_in_zone, wanted)
        use_neighbors == UseStep(valid1, TruthyDict(neighboring_zones))
        valid2 == IF use_neighbors
                  THEN NeighborFacilities(gdf, neighboring_zones, destination_zone,
                                          wanted)
                  ELSE valid1
        use_fallback == UseStep(valid2, TruthyStr(fallback_type))
        valid3 == IF use_fallback
                  THEN FallbackFacilities(gdf, facilities_in_zone, neighboring_zones,
                                          destination_zone, fallback_type)
                  ELSE valid2
        use_random == UseStep(valid3, fallback_to_random)
        facilities_valid == IF use_random THEN facilities_in_zone ELSE valid3
        steps == <<"zone">>
                   \o (IF use_neighbors THEN <<"neighbors">> ELSE <<>>)
                   \o (IF use_fallback THEN <<"fallback_type">> ELSE <<>>)
                   \o (IF use_random THEN <<"random">> ELSE <<>>)
    IN  IF isna(destination_zone) THEN {FacilityResult(<<NaN, NaN>>, <<>>)}
        ELSE IF facilities_valid = {} THEN {FacilityResult(<<NaN, NaN>>, steps)}
        ELSE {FacilityResult(<<f.id, f.geometry>>, steps \o <<"sample">>) :
                 f \in SampledFacility(facilities_valid, gdf_sample_col)}

(***************************************************************************)
(* Specification of the facility selection                                 *)
(***************************************************************************)
MaxFacilities == 2     \* rows of the facility table

FacilityKinds ==
    [zone : {"Z1", "Z2", NaN},
     activities : {{"education_school"}, {"education"}, {"shop"}},
     floor_area : Weights]

\* Facility tables: row i has id i and its own geometry
FacilityTables ==
    {[i \in 1..Len(q) |->
        [id |-> i, geometry |-> <<"point", i>>, zone |-> q[i].zone,
         activities |-> q[i].activities, floor_area |-> q[i].floor_area]] :
     q \in SeqsUpTo(FacilityKinds, MaxFacilities)}

NeighborMaps ==
    {NoDict, Given([z \in {"Z1"} |-> <<"Z2">>]), Given([z \in {"Z2"} |-> <<"Z1">>])}

InitFacility ==
    /\ pc = "call"
    /\ activity \in [name : {1}, OA21CD : {"Z1"}, mode : {"car"},
                      TripTotalTime : {10}, education_type : {"education_school"},
                      dzone : {"Z1", NaN}]
    /\ facilities_gdf \in FacilityTables
    /\ activities_per_zone = Idle
    /\ travel_times = Idle
    /\ ties = Idle
    /\ travel_times_est = Idle
    /\ possible_zones = Idle
    /\ args = Idle
    /\ result = Idle
    /\ activities_to_assign = Idle
    /\ actual_flows = Idle
    /\ remaining_flows = Idle
    /\ total_flows = Idle
    /\ percentages = Idle
    /\ assignments = Idle
    /\ cursor = 0
    /\ weighted_made = Idle
    /\ activity_chains = Idle
    /\ results = Idle

SelectFacilityCall ==
    /\ pc = "call"
    /\ \E ft \in {None, "education"}, fr \in BOOLEAN, nz \in NeighborMaps,
          sc \in {None, "floor_area"} :
         /\ args' = [fallback_type |-> ft, fallback_to_random |-> fr,
                     neighboring_zones |-> nz, gdf_sample_col |-> sc]
         /\ result' \in select_facility(activity, facilities_gdf, ft, fr, nz, sc)
    /\ pc' = "done"
    /\ UNCHANGED <<feasibleVars, travel_times_est, possible_zones, facilities_gdf,
                   chainVars>>
    /\ UNCHANGED workVars

NextFacility == SelectFacilityCall

SpecFacility == InitFacility /\ [][NextFacility]_vars

\* Facility i has the activity's type among its categories
HasWantedType(i) == activity.education_type \in facilities_gdf[i].activities

\* Facility i lies in a zone the neighbours mapping lists for the destination
InNeighborZone(i) ==
    /\ args.neighboring_zones.given
    /\ activity.dzone \in DOMAIN args.neighboring_zones.dict
    /\ \E k \in 1..Len(args.neighboring_zones.dict[activity.dzone]) :
          args.neighboring_zones.dict[activity.dzone][k] = facilities_gdf[i].zone

\* C9: with no facility of the activity's type in the destination zone and a
\* neighbours mapping supplied, select_facility returns a facility of that
\* type located in a neighbouring zone, whenever one exists.
C9_NeighborFallback ==
    ( /\ pc = "done"
      /\ activity.dzone # NaN
      /\ args.neighboring_zones.given
      /\ ~ \E i \in 1..Len(facilities_gdf) :
              facilities_gdf[i].zone = activity.dzone /\ HasWantedType(i)
      /\ \E i \in 1..Len(facilities_gdf) : InNeighborZone(i) /\ HasWantedType(i) )
    => \E i \in 1..Len(facilities_gdf) :
           /\ result.value = <<facilities_gdf[i].id, facilities_gdf[i].geometry>>
           /\ InNeighborZone(i)
           /\ HasWantedType(i)

\* C9 witness: the destination zone holds a facility of another type only, a
\* neighbouring zone holds one of the activity's type, and that one is returned.
C9_Witness ==
    /\ pc = "done"
    /\ activity.dzone = "Z1"
    /\ Len(facilities_gdf) = 2
    /\ facilities_gdf[1].zone = "Z1" /\ ~HasWantedType(1)
    /\ InNeighborZone(2) /\ HasWantedType(2)
    /\ args.fallback_to_random
    /\ result.value = <<2, facilities_gdf[2].geometry>>

\* C10: a missing destination zone makes select_facility return (NA, NA) for
\* every facility table, neighbours mapping, fallback_type and
\* fallback_to_random, without any search or sampling of the facility data.
C10_MissingDestinationShortCircuits ==
    (pc = "done" /\ activity.dzone = NaN) =>
        /\ result.value = <<NaN, NaN>>
        /\ result.steps = <<>>

\* C10 witness: the destination is missing while the table holds facilities,
\* one of them without a zone, and every fallback is enabled.
C10_Witness ==
    /\ pc = "done"
    /\ activity.dzone = NaN
    /\ Len(facilities_gdf) = 2
    /\ facilities_gdf[1].zone = NaN
    /\ args.fallback_to_random
    /\ args.fallback_type # None
    /\ args.neighboring_zones.given
    /\ result.value = <<NaN, NaN>>

\* Facility i lies in the destination zone of the activity
InDestinationZone(i) ==
    /\ activity.dzone # NaN
    /\ facilities_gdf[i].zone = activity.dzone

\* The candidate sets (indices of the facility table) of the four steps
Step1Rows == {i \in 1..Len(facilities_gdf) : InDestinationZone(i) /\ HasWantedType(i)}
Step2Rows == {i \in 1..Len(facilities_gdf) : InNeighborZone(i) /\ HasWantedType(i)}
Step3Rows ==
    {i \in 1..Len(facilities_gdf) :
        InDestinationZone(i) /\ args.fallback_type \in facilities_gdf[i].activities}
Step4Rows == {i \in 1..Len(facilities_gdf) : InDestinationZone(i)}

\* The steps the call enabled: the neighbour search by a non-empty mapping,
\* fallback_type by a non-empty string, the last one by fallback_to_random
NeighborsEnabled ==
    args.neighboring_zones.given /\ DOMAIN args.neighboring_zones.dict # {}
FallbackEnabled == args.fallback_type \notin {"None", ""}
RandomEnabled == args.fallback_to_random

\* Candidate set of the first enabled step that yields rows ({} if none does)
FirstStepRows ==
    IF Step1Rows # {} THEN Step1Rows
    ELSE IF NeighborsEnabled /\ Step2Rows # {} THEN Step2Rows
    ELSE IF FallbackEnabled /\ Step3Rows # {} THEN Step3Rows
    ELSE IF RandomEnabled THEN Step4Rows
    ELSE {}

\* The searches made up to the first enabled step that yields rows
FirstStepTrace ==
    IF Step1Rows # {} THEN <<"zone">>
    ELSE IF NeighborsEnabled /\ Step2Rows # {} THEN <<"zone", "neighbors">>
    ELSE <<"zone">>
           \o (IF NeighborsEnabled THEN <<"neighbors">> ELSE <<>>)
           \o (IF FallbackEnabled THEN <<"fallback_type">> ELSE <<>>)
           \o (IF (~FallbackEnabled \/ Step3Rows = {}) /\ RandomEnabled
               THEN <<"random">> ELSE <<>>)

\* The call reached step 2 and drew a facility (it returns (NA, NA) otherwise)
DrewFacility ==
    /\ result.steps # <<>>
    /\ result.steps[Len(result.steps)] = "sample"

ThroughFallbackType ==
    /\ pc = "done"
    /\ Len(result.steps) >= 2
    /\ result.steps[Len(result.steps)] = "sample"
    /\ result.steps[Len(result.steps) - 1] = "fallback_type"

RECURSIVE SumFlows(_, _)
SumFlows(flows, pairs) ==
    IF pairs = {} THEN 0
    ELSE LET od == CHOOSE x \in pairs : TRUE
         IN  flows[od] + SumFlows(flows, pairs \ {od})

\* _calculate_total_flows
_calculate_total_flows(flows) ==
    [o \in {od[1] : od \in DOMAIN flows} |->
        SumFlows(flows, {od \in DOMAIN flows : od[1] = o})]

\* flow / total_flows[from_zone] divides by zero for some pair
PercentagesRaise(flows, totals) == \E od \in DOMAIN flows : totals[od[1]] = 0

\* _calculate_percentages ; the share flow / total is kept as <<flow, total>>
_calculate_percentages(flows, totals) ==
    [od \in DOMAIN flows |-> <<flows[od], totals[od[1]]>>]

\* The (activity, origin) positions in the order the two loops visit them
RECURSIVE PairsFrom(_, _)
PairsFrom(ata, i) ==
    IF i > Len(ata) THEN <<>>
    ELSE [k \in 1..Len(ata[i]) |-> <<i, k>>] \o PairsFrom(ata, i + 1)

LoopPairs(ata) == PairsFrom(ata, 1)

\* Variant of the lookup that reads the flows of the census table instead of
\* the flows that remain.
GetFlowOfActual(flows, origin_id, zone) ==
    IF <<origin_id, zone>> \in DOMAIN actual_flows
    THEN actual_flows[<<origin_id, zone>>] ELSE 0

\* self.remaining_flows.get((origin_id, zone), 0)
GetFlow(flows, origin_id, zone) ==
    IF <<origin_id, zone>> \in DOMAIN flows THEN flows[<<origin_id, zone>>] ELSE 0

\* Variant of the filter that keeps pairs of zero flow.
WeightedZonesNonStrict(feasible_zones, origin_id, flows) ==
    LET kept == SelectSeq(feasible_zones,
                          LAMBDA z : <<origin_id, z>> \in DOMAIN flows
                                     /\ GetFlow(flows, origin_id, z) >= 0)
    IN  [i \in 1..Len(kept) |-> <<kept[i], GetFlow(flows, origin_id, kept[i])>>]

\* weighted_zones: the feasible zones with remaining flow > 0, with their flows
WeightedZones(feasible_zones, origin_id, flows) ==
    LET kept == SelectSeq(feasible_zones,
                          LAMBDA z : GetFlow(flows, origin_id, z) > 0)
    IN  [i \in 1..Len(kept) |-> <<kept[i], GetFlow(flows, origin_id, kept[i])>>]

AssignmentRow(activity_id, origin_id, assigned_zone, assignment_type) ==
    [activity_id |-> activity_id, origin_zone |-> origin_id,
     assigned_zone |-> assigned_zone, assignment_type |-> assignment_type]

\* The item at position k of the two loops
ItemAt(ata, k) ==
    LET p == LoopPairs(ata)[k]
    IN  [activity_id |-> p[1], origin_id |-> ata[p[1]][p[2]].origin,
         feasible_zones |-> ata[p[1]][p[2]].zones]

\* Variant of the loop that never decrements the flow of the chosen pair.
RECURSIVE GreedyFromNoDepletion(_, _, _)
GreedyFromNoDepletion(ata, flows, k) ==
    IF k > Len(LoopPairs(ata)) THEN {<<>>}
    ELSE LET it == ItemAt(ata, k)
             wz == WeightedZones(it.feasible_zones, it.origin_id, flows)
         IN  IF wz # <<>>
             THEN UNION {{<<AssignmentRow(it.activity_id, it.origin_id, wz[i][1],
                                          "Weighted")>> \o rest :
                            rest \in GreedyFromNoDepletion(ata, flows, k + 1)} :
                         i \in 1..Len(wz)}
             ELSE {<<AssignmentRow(it.activity_id, it.origin_id, "None", "None")>>
                     \o rest : rest \in GreedyFromNoDepletion(ata, flows, k + 1)}

\* The loop of select_work_zone_iterative(random_assignment=False) from
\* position k on with the flows that remain: the lists of rows it can append
RECURSIVE GreedyFrom(_, _, _)
GreedyFrom(ata, flows, k) ==
    IF k > Len(LoopPairs(ata)) THEN {<<>>}
    ELSE LET it == ItemAt(ata, k)
             wz == WeightedZones(it.feasible_zones, it.origin_id, flows)
         IN  IF wz # <<>>
             THEN UNION {{<<AssignmentRow(it.activity_id, it.origin_id, wz[i][1],
                                          "Weighted")>> \o rest :
                            rest \in GreedyFrom(ata,
                                       [flows EXCEPT ![<<it.origin_id, wz[i][1]>>] = @ - 1],
                                       k + 1)} :
                         i \in 1..Len(wz)}
             ELSE {<<AssignmentRow(it.activity_id, it.origin_id, "None", "None")>>
                     \o rest : rest \in GreedyFrom(ata, flows, k + 1)}

\* The runs of select_work_zone_iterative(random_assignment=False) on an
\* object just constructed from ata and flows
GreedyRuns(ata, flows) == GreedyFrom(ata, flows, 1)

(***************************************************************************)
(* Specification of the work-zone assignment                               *)
(***************************************************************************)
MaxActivities == 2     \* activities of activities_to_assign
MaxFlow == 2           \* flow count of an OD pair

Dests == {"d1", "d2"}
FlowPairs == {<<"o1", "d1">>, <<"o1", "d2">>}

FlowDicts == UNION {[P -> 0..MaxFlow] : P \in SUBSET FlowPairs}

\* The dict of one activity: no origin, or one origin with its feasible zones
OriginDicts ==
    {<<>>} \cup
    {<<[origin |-> "o1", zones |-> q]>> : q \in ListsUpTo(Dests, MaxZoneList)} \cup
    {<<[origin |-> "o2", zones |-> <<"d1">>]>>}

InitWork ==
    /\ pc = "new"
    /\ activities_to_assign \in SeqsUpTo(OriginDicts, MaxActivities)
    /\ actual_flows \in FlowDicts
    /\ remaining_flows = Idle
    /\ total_flows = Idle
    /\ percentages = Idle
    /\ assignments = <<>>
    /\ cursor = 0
    /\ weighted_made = Idle
    /\ activity_chains = Idle
    /\ results = Idle
    /\ activity = Idle
    /\ activities_per_zone = Idle
    /\ travel_times = Idle
    /\ ties = Idle
    /\ travel_times_est = Idle
    /\ possible_zones = Idle
    /\ facilities_gdf = Idle
    /\ args = Idle
    /\ result = Idle

otherVars == <<feasibleVars, travel_times_est, possible_zones, facilities_gdf,
               chainVars>>

\* WorkZoneAssignment(activities_to_assign, actual_flows) : __post_init__
PostInit ==
    /\ pc = "new"
    /\ remaining_flows' = actual_flows
    /\ total_flows' = _calculate_total_flows(actual_flows)
    /\ IF PercentagesRaise(actual_flows, total_flows')
       THEN /\ pc' = "error"
            /\ result' = Raise("ZeroDivisionError")
            /\ UNCHANGED percentages
       ELSE /\ pc' = "ready"
            /\ percentages' = _calculate_percentages(actual_flows, total_flows')
            /\ UNCHANGED result
    /\ weighted_made' = [od \in DOMAIN actual_flows |-> 0]
    /\ UNCHANGED <<activities_to_assign, actual_flows, assignments, cursor, args>>
    /\ UNCHANGED otherVars

\* Variant of the entry that starts every call from the actual flows.
IterativeStartReset ==
    /\ pc \in {"ready", "done"}
    /\ \E r \in BOOLEAN :
         args' = [method |-> "iterative", random_assignment |-> r]
    /\ pc' = "iterative"
    /\ assignments' = <<>>
    /\ cursor' = 0
    /\ result' = Idle
    /\ remaining_flows' = actual_flows
    /\ UNCHANGED <<activities_to_assign, actual_flows, total_flows,
                   percentages, weighted_made>>
    /\ UNCHANGED <<feasibleVars, travel_times_est, possible_zones, facilities_gdf,
                   chainVars>>

\* select_work_zone_iterative(random_assignment) : entry, assignments = []
IterativeStart ==
    /\ pc \in {"ready", "done"}
    /\ \E r \in BOOLEAN :
         args' = [method |-> "iterative", random_assignment |-> r]
    /\ pc' = "iterative"
    /\ assignments' = <<>>
    /\ cursor' = 0
    /\ result' = Idle
    /\ UNCHANGED <<activities_to_assign, actual_flows, remaining_flows, total_flows,
                   percentages, weighted_made>>
    /\ UNCHANGED otherVars

\* The item the loop is about to process
CurrentItem ==
    LET p == LoopPairs(activities_to_assign)[cursor + 1]
    IN  [activity_id |-> p[1],
         origin_id |-> activities_to_assign[p[1]][p[2]].origin,
         feasible_zones |-> activities_to_assign[p[1]][p[2]].zones]

InLoop == pc = "iterative" /\ cursor < Len(LoopPairs(activities_to_assign))

\* Variant of the weighted branch in which remaining_flows and actual_flows
\* are one dict, so that the decrement shows in both.
IterativeWeightedAliased ==
    /\ InLoop
    /\ LET it == CurrentItem
           weighted_zones == WeightedZones(it.feasible_zones, it.origin_id,
                                           remaining_flows)
       IN  /\ it.feasible_zones # <<>>
           /\ weighted_zones # <<>>
           /\ \E i \in 1..Len(weighted_zones) :
                LET assigned_zone == weighted_zones[i][1]
                    od == <<it.origin_id, assigned_zone>>
                IN  /\ remaining_flows' = [remaining_flows EXCEPT ![od] = @ - 1]
                    /\ actual_flows' = remaining_flows'
                    /\ weighted_made' = [weighted_made EXCEPT ![od] = @ + 1]
                    /\ assignments' = Append(assignments,
                          AssignmentRow(it.activity_id, it.origin_id, assigned_zone,
                                        "Weighted"))
    /\ cursor' = cursor + 1
    /\ UNCHANGED <<pc, args, result, activities_to_assign, total_flows,
                   percentages>>
    /\ UNCHANGED <<feasibleVars, travel_times_est, possible_zones, facilities_gdf,
                   chainVars>>

\* Loop body, branch `if weighted_zones`: random.choices(zones, weights) and
\* the decrement of the chosen pair
IterativeWeighted ==
    /\ InLoop
    /\ LET it == CurrentItem
           weighted_zones == WeightedZones(it.feasible_zones, it.origin_id,
                                           remaining_flows)
       IN  /\ it.feasible_zones # <<>>
           /\ weighted_zones # <<>>
           /\ \E i \in 1..Len(weighted_zones) :
                LET assigned_zone == weighted_zones[i][1]
                    od == <<it.origin_id, assigned_zone>>
                IN  /\ remaining_flows' = [remaining_flows EXCEPT ![od] = @ - 1]
                    /\ weighted_made' = [weighted_made EXCEPT ![od] = @ + 1]
                    /\ assignments' = Append(assignments,
                          AssignmentRow(it.activity_id, it.origin_id, assigned_zone,
                                        "Weighted"))
    /\ cursor' = cursor + 1
    /\ UNCHANGED <<pc, args, result, activities_to_assign, actual_flows, total_flows,
                   percentages>>
    /\ UNCHANGED otherVars

\* Loop body, branch `elif random_assignment`: random.choice(feasible_zones)
IterativeRandom ==
    /\ InLoop
    /\ LET it == CurrentItem
       IN  /\ it.feasible_zones # <<>>
           /\ WeightedZones(it.feasible_zones, it.origin_id, remaining_flows) = <<>>
           /\ args.random_assignment
           /\ \E i \in 1..Len(it.feasible_zones) :
                assignments' = Append(assignments,
                    AssignmentRow(it.activity_id, it.origin_id, it.feasible_zones[i],
                                  "Random"))
    /\ cursor' = cursor + 1
    /\ UNCHANGED <<pc, args, result, activities_to_assign, actual_flows,
                   remaining_flows, total_flows, percentages, weighted_made>>
    /\ UNCHANGED otherVars

\* Loop body, the two branches that assign None
IterativeNone ==
    /\ InLoop
    /\ LET it == CurrentItem
       IN  /\ \/ it.feasible_zones = <<>>
              \/ /\ WeightedZones(it.feasible_zones, it.origin_id,
                                   remaining_flows) = <<>>
                 /\ ~args.random_assignment
           /\ assignments' = Append(assignments,
                  AssignmentRow(it.activity_id, it.origin_id, None, None))
    /\ cursor' = cursor + 1
    /\ UNCHANGED <<pc, args, result, activities_to_assign, actual_flows,
                   remaining_flows, total_flows, percentages, weighted_made>>
    /\ UNCHANGED otherVars

\* return pd.DataFrame(assignments)
IterativeReturn ==
    /\ pc = "iterative"
    /\ cursor = Len(LoopPairs(activities_to_assign))
    /\ result' = Return(assignments)
    /\ pc' = "done"
    /\ UNCHANGED <<args, activities_to_assign, actual_flows, remaining_flows,
                   total_flows, percentages, assignments, cursor, weighted_made>>
    /\ UNCHANGED otherVars

NextIterative ==
    \/ PostInit
    \/ IterativeStart
    \/ IterativeWeighted
    \/ IterativeRandom
    \/ IterativeNone
    \/ IterativeReturn

SpecIterative == InitWork /\ [][NextIterative]_vars

\* The step appended a "Weighted" row for the OD pair od
ChoseWeighted(od) ==
    /\ Len(assignments') = Len(assignments) + 1
    /\ assignments'[Len(assignments')].assignment_type = "Weighted"
    /\ assignments'[Len(assignments')].origin_zone = od[1]
    /\ assignments'[Len(assignments')].assigned_zone = od[2]

Constructed == pc \in {"ready", "iterative", "done"}

\* C2: in select_work_zone_iterative, remaining_flows[(o,d)] decreases by
\* exactly 1 each time (o,d) is chosen by weighted selection and is changed by
\* nothing else, and no entry of remaining_flows is ever negative.
C2_FlowDepletion ==
    /\ [][Constructed =>
            /\ DOMAIN remaining_flows' = DOMAIN remaining_flows
            /\ \A od \in DOMAIN remaining_flows :
                  remaining_flows'[od] =
                      remaining_flows[od] - (IF ChoseWeighted(od) THEN 1 ELSE 0)]_vars
    /\ [](Constructed => \A od \in DOMAIN remaining_flows : remaining_flows[od] >= 0)

\* C2 witness: a pair of flow 2 was chosen twice by weighted selection and is
\* depleted.
C2_Witness ==
    /\ pc = "iterative"
    /\ Len(assignments) = 2
    /\ <<"o1", "d1">> \in DOMAIN actual_flows
    /\ actual_flows[<<"o1", "d1">>] = 2
    /\ remaining_flows[<<"o1", "d1">>] = 0
    /\ \A i \in 1..2 : /\ assignments[i].assignment_type = "Weighted"
                        /\ assignments[i].assigned_zone = "d1"

\* The feasible zones of the item being processed that have remaining flow
ZonesWithFlow ==
    {z \in Range(CurrentItem.feasible_zones) :
        /\ <<CurrentItem.origin_id, z>> \in DOMAIN remaining_flows
        /\ remaining_flows[<<CurrentItem.origin_id, z>>] > 0}

\* The row the step appends for the item being processed
NewRow == assignments'[Len(assignments')]

\* C24: in select_work_zone_iterative every non-null assigned zone is in the
\* feasible list of its activity, and the tag follows the state at that
\* moment: "Weighted" exactly when some feasible zone has remaining flow > 0
\* (the chosen zone being one of them); "Random" exactly when the list is not
\* empty, none has and random_assignment is true; null zone and null tag
\* exactly when none has and random_assignment is false, or the list is empty.
C24_TagFollowsState ==
    [][(InLoop /\ cursor' = cursor + 1) =>
          /\ Len(assignments') = Len(assignments) + 1
          /\ NewRow.activity_id = CurrentItem.activity_id
          /\ NewRow.origin_zone = CurrentItem.origin_id
          /\ NewRow.assigned_zone # "None" =>
                NewRow.assigned_zone \in Range(CurrentItem.feasible_zones)
          /\ NewRow.assignment_type = "Weighted" <=> ZonesWithFlow # {}
          /\ NewRow.assignment_type = "Weighted" =>
                NewRow.assigned_zone \in ZonesWithFlow
          /\ NewRow.assignment_type = "Random" <=>
                /\ CurrentItem.feasible_zones # <<>>
                /\ ZonesWithFlow = {}
                /\ args.random_assignment
          /\ NewRow.assigned_zone = "None" <=>
                \/ ZonesWithFlow = {} /\ ~args.random_assignment
                \/ CurrentItem.feasible_zones = <<>>
          /\ NewRow.assignment_type = "None" <=> NewRow.assigned_zone = "None"
          /\ NewRow.assignment_type \in {"Weighted", "Random", "None"}]_vars

\* C24 witness: the second activity found the flow of its only feasible zone
\* used up by the first one and got that zone with the tag "Random".
C24_Witness ==
    /\ pc = "iterative"
    /\ args.random_assignment
    /\ Len(assignments) = 2
    /\ assignments[1].assignment_type = "Weighted"
    /\ assignments[1].assigned_zone = "d1"
    /\ assignments[2].assignment_type = "Random"
    /\ assignments[2].assigned_zone = "d1"
    /\ Len(activities_to_assign) = 2
    /\ Len(activities_to_assign[2]) = 1
    /\ activities_to_assign[2][1].zones = <<"d1">>
    /\ <<"o1", "d1">> \in DOMAIN actual_flows
    /\ actual_flows[<<"o1", "d1">>] = 1

\* No call before the current one made a weighted assignment: the flows at
\* the start of the call were the actual flows
StartedFromActualFlows ==
    SumFlows(weighted_made, DOMAIN weighted_made)
        = Cardinality({k \in 1..Len(assignments) :
                          assignments[k].assignment_type = "Weighted"})

\* A finished run of select_work_zone_iterative(random_assignment=False) on
\* flows not depleted by an earlier call
GreedyRunDone ==
    /\ pc = "done"
    /\ args.method = "iterative"
    /\ ~args.random_assignment
    /\ StartedFromActualFlows

\* Number of rows before row k that took the pair od by weighted selection
TakenBefore(rows, k, od) ==
    Cardinality({j \in 1..(k - 1) :
                    /\ rows[j].assignment_type = "Weighted"
                    /\ rows[j].origin_zone = od[1]
                    /\ rows[j].assigned_zone = od[2]})

\* Activities a list of rows leaves without a zone
UnassignedIn(rows) ==
    {rows[k].activity_id : k \in {j \in 1..Len(rows) : rows[j].assigned_zone = "None"}}

\* The items of the loop can all be given a feasible zone with no OD pair
\* taken more often than its actual flow
FullAssignmentExists ==
    LET n == Len(LoopPairs(activities_to_assign))
    IN  \E f \in [1..n -> Dests] :
           /\ \A k \in 1..n :
                 f[k] \in Range(ItemAt(activities_to_assign, k).feasible_zones)
           /\ \A k \in 1..n :
                 LET od == <<ItemAt(activities_to_assign, k).origin_id, f[k]>>
                 IN  /\ od \in DOMAIN actual_flows
                     /\ Cardinality({j \in 1..n :
                            /\ ItemAt(activities_to_assign, j).origin_id = od[1]
                            /\ f[j] = od[2]}) <= actual_flows[od]

\* The same activities in the opposite order
Reversed(ata) == [i \in 1..Len(ata) |-> ata[Len(ata) + 1 - i]]

\* C25: the iterative strategy is greedy and order-dependent. Every run with
\* random_assignment=False is a run of the sequential loop, in which an
\* activity stays unassigned exactly when the rows before it used up the flow
\* of each of its feasible zones, whatever the rows after it would need; the
\* witness below is a run that leaves an activity unassigned although a full
\* assignment within the flows exists, on activities that are all assigned
\* when processed in the opposite order.
C25_GreedyOrderDependent ==
    GreedyRunDone =>
        /\ result.value \in GreedyRuns(activities_to_assign, actual_flows)
        /\ \A k \in 1..Len(result.value) :
              result.value[k].assigned_zone = "None" <=>
                  \A z \in Range(ItemAt(activities_to_assign, k).feasible_zones) :
                      LET od == <<result.value[k].origin_zone, z>>
                      IN  \/ od \notin DOMAIN actual_flows
                          \/ actual_flows[od] - TakenBefore(result.value, k, od) <= 0

\* C25 witness: flows of 1 to d1 and to d2; the first activity may go to d1
\* or d2 and took d1, the second may only go to d1 and stays unassigned,
\* although giving d2 to the first assigns both; processed in the opposite
\* order every run assigns both.
C25_Witness ==
    /\ GreedyRunDone
    /\ Len(activities_to_assign) = 2
    /\ UnassignedIn(result.value) = {2}
    /\ result.value[1].assigned_zone = "d1"
    /\ FullAssignmentExists
    /\ \A run \in GreedyRuns(Reversed(activities_to_assign), actual_flows) :
          UnassignedIn(run) = {}

\* C27: over any sequence of select_work_zone_iterative calls on one object,
\* actual_flows[(o,d)] - remaining_flows[(o,d)] equals, for every OD pair, the
\* number of "Weighted" assignments made to (o,d) so far; remaining_flows is
\* not reset between calls, so a later call starts from the depleted flows.
C27_FlowConservation ==
    /\ [](Constructed =>
            /\ DOMAIN remaining_flows = DOMAIN actual_flows
            /\ \A od \in DOMAIN actual_flows :
                  actual_flows[od] - remaining_flows[od] = weighted_made[od])
    /\ [][Constructed =>
            /\ \A od \in DOMAIN actual_flows :
                  weighted_made'[od] =
                      weighted_made[od] + (IF ChoseWeighted(od) THEN 1 ELSE 0)
            /\ (pc \in {"ready", "done"} /\ pc' = "iterative") =>
                  remaining_flows' = remaining_flows]_vars

\* C27 witness: a second call has finished; the only flow was taken by the
\* first call, so the activity got no zone in the second one.
C27_Witness ==
    /\ pc = "done"
    /\ Len(assignments) = 1
    /\ assignments[1].assigned_zone = "None"
    /\ Len(activities_to_assign) = 1
    /\ Len(activities_to_assign[1]) = 1
    /\ activities_to_assign[1][1].zones = <<"d1">>
    /\ activities_to_assign[1][1].origin = "o1"
    /\ <<"o1", "d1">> \in DOMAIN actual_flows
    /\ actual_flows[<<"o1", "d1">>] = 1
    /\ remaining_flows[<<"o1", "d1">>] = 0
    /\ weighted_made[<<"o1", "d1">>] = 1

\* C30: constructing a WorkZoneAssignment succeeds for every actual_flows map
\* of non-negative integer counts, an origin whose flows are all 0 included:
\* afterwards total_flows[o] is the sum of actual_flows over the destinations
\* of o, and percentages[(o,d)] is defined for every pair with
\* percentages[(o,d)] * total_flows[o] = actual_flows[(o,d)].
C30_ConstructionSucceeds ==
    (pc # "new") =>
        /\ pc # "error"
        /\ DOMAIN total_flows = {od[1] : od \in DOMAIN actual_flows}
        /\ \A o \in DOMAIN total_flows :
              total_flows[o] =
                  SumFlows(actual_flows, {od \in DOMAIN actual_flows : od[1] = o})
        /\ DOMAIN percentages = DOMAIN actual_flows
        /\ \A od \in DOMAIN actual_flows :
              /\ percentages[od][2] # 0
              /\ percentages[od][1] * total_flows[od[1]]
                    = actual_flows[od] * percentages[od][2]

\* C3 (as claimed): select_work_zone_iterative returns exactly one row per
\* activity of activities_to_assign, for both values of random_assignment.
C3_IterativeOneRowPerActivity ==
    (pc = "done" /\ args.method = "iterative") =>
        /\ Len(result.value) = Len(activities_to_assign)
        /\ \A i \in 1..Len(activities_to_assign) :
              Cardinality({k \in 1..Len(result.value) :
                              result.value[k].activity_id = i}) = 1

(***************************************************************************)
(* work.py : select_work_zone_optimization                                 *)
(* The mixed-integer program is modelled by its solutions: one zone per    *)
(* constrained (person, origin) item; at an optimum every abs_dev equals   *)
(* the absolute deviation of its pair and max_dev the largest of them (the *)
(* weights are positive). The solver may return any optimal solution.      *)
(***************************************************************************)
\* person_vars of an item: its feasible zones whose OD pair is in percentages
PersonVars(item, perc) ==
    SelectSeq(item.zones, LAMBDA z : <<item.origin, z>> \in DOMAIN perc)

\* Variant that constrains every item, also one without person_vars.
ConstrainedItemsAll(ata, perc) ==
    LET pairs == LoopPairs(ata)
    IN  [j \in 1..Len(pairs) |->
            [person_id |-> pairs[j][1], origin |-> ata[pairs[j][1]][pairs[j][2]].origin,
             vars |-> PersonVars(ata[pairs[j][1]][pairs[j][2]], perc)]]

\* The items that get the constraint lpSum(person_vars) == 1, in loop order
ConstrainedItems(ata, perc) ==
    LET pairs == LoopPairs(ata)
        kept == SelectSeq(pairs, LAMBDA q : PersonVars(ata[q[1]][q[2]], perc) # <<>>)
    IN  [j \in 1..Len(kept) |->
            [person_id |-> kept[j][1], origin |-> ata[kept[j][1]][kept[j][2]].origin,
             vars |-> PersonVars(ata[kept[j][1]][kept[j][2]], perc)]]

\* The values of the binary variables that meet the constraints: for each
\* constrained item the one zone whose indicator is 1
Solutions(items) ==
    {sol \in [1..Len(items) -> Dests] :
        \A j \in 1..Len(items) : sol[j] \in Range(items[j].vars)}

\* assigned_flow of the OD pair od under sol
AssignedFlow(items, sol, od) ==
    Cardinality({j \in 1..Len(items) : items[j].origin = od[1] /\ sol[j] = od[2]})

RECURSIVE ProductOf(_, _)
ProductOf(totals, origins) ==
    IF origins = {} THEN 1
    ELSE LET o == CHOOSE x \in origins : TRUE
         IN  totals[o] * ProductOf(totals, origins \ {o})

\* Variant that compares the assigned count with the share when counts are asked for.
DeviationMixed(od, assigned_flow, use_percentages, flows, totals) ==
    IF use_percentages
    THEN Abs(assigned_flow - flows[od])
    ELSE Abs(assigned_flow * totals[od[1]] - flows[od])

\* The least value of abs_dev for the pair od. With use_percentages it is
\* abs(assigned_flow / total - percentage), kept as its numerator over the
\* product of all totals; otherwise abs(assigned_flow - actual_flows[od]).
Deviation(od, assigned_flow, use_percentages, flows, totals) ==
    IF use_percentages
    THEN Abs(assigned_flow - flows[od])
           * (ProductOf(totals, DOMAIN totals) \div totals[od[1]])
    ELSE Abs(assigned_flow - flows[od])

AbsDevs(items, sol, use_percentages, flows, totals) ==
    [od \in DOMAIN flows |->
        Deviation(od, AssignedFlow(items, sol, od), use_percentages, flows, totals)]

RECURSIVE SumDevs(_, _)
SumDevs(devs, pairs) ==
    IF pairs = {} THEN 0
    ELSE LET od == CHOOSE x \in pairs : TRUE
         IN  devs[od] + SumDevs(devs, pairs \ {od})

\* max_dev at its least value: the largest abs_dev, 0 without OD pairs
MaxDev(devs) ==
    IF DOMAIN devs = {} THEN 0
    ELSE CHOOSE v \in Range(devs) : \A w \in Range(devs) : v >= w

\* weight_max_dev * max_dev + weight_total_dev * lpSum(deviation_vars.values())
Objective(devs, weights) ==
    weights[1] * MaxDev(devs) + weights[2] * SumDevs(devs, DOMAIN devs)

\* The solutions prob.solve() can end on with status Optimal
OptimalSolutions(items, use_percentages, weights, flows, totals) ==
    {sol \in Solutions(items) :
        \A other \in Solutions(items) :
            Objective(AbsDevs(items, sol, use_percentages, flows, totals), weights)
              <= Objective(AbsDevs(items, other, use_percentages, flows, totals),
                           weights)}

\* The rows built from the variables valued 1, with the solved values of the
\* deviation variables beside them
OptimizationResult(items, sol, use_percentages, flows, totals) ==
    [kind |-> "return", status |-> "Optimal",
     value |-> [j \in 1..Len(items) |->
                  [person_id |-> items[j].person_id, home_zone |-> items[j].origin,
                   assigned_zone |-> sol[j]]],
     abs_dev |-> AbsDevs(items, sol, use_percentages, flows, totals),
     max_dev |-> MaxDev(AbsDevs(items, sol, use_percentages, flows, totals))]

\* Variant that hands back a row although the solve did not end Optimal.
PartialResult(status) ==
    [kind |-> "return", status |-> status,
     value |-> <<[person_id |-> 1, home_zone |-> "o1", assigned_zone |-> "d1"]>>,
     abs_dev |-> EmptyDict, max_dev |-> 0]

\* return pd.DataFrame() on a status other than Optimal
EmptyResult(status) ==
    [kind |-> "return", status |-> status, value |-> <<>>,
     abs_dev |-> EmptyDict, max_dev |-> 0]

\* Positive (weight_max_dev, weight_total_dev), up to a common factor
WeightPairs == {<<1, 1>>, <<1, 2>>}

\* The statuses of pulp.LpStatus
SolverStatuses == {"Optimal", "Not Solved", "Infeasible", "Unbounded", "Undefined"}

\* The statuses prob.solve() can end on for the problem built from items: the
\* objective is bounded below by 0, so a problem with solutions ends Optimal
\* unless the solver gives up, and one without solutions never ends Optimal
StatusesOf(items) ==
    IF Solutions(items) # {} THEN {"Optimal", "Not Solved", "Undefined"}
    ELSE {"Infeasible", "Not Solved", "Undefined"}

select_work_zone_optimization ==
    /\ pc \in {"ready", "done"}
    /\ \E up \in BOOLEAN, w \in WeightPairs :
       \E status \in StatusesOf(ConstrainedItems(activities_to_assign, percentages)) :
         LET items == ConstrainedItems(activities_to_assign, percentages)
         IN  /\ args' = [method |-> "optimization", use_percentages |-> up,
                         weights |-> w]
             /\ IF status # "Optimal"
                THEN result' = EmptyResult(status)
                ELSE \E sol \in OptimalSolutions(items, up, w, actual_flows,
                                                  total_flows) :
                        result' = OptimizationResult(items, sol, up, actual_flows,
                                                     total_flows)
    /\ pc' = "done"
    /\ UNCHANGED workVars
    /\ UNCHANGED otherVars

NextOptimization ==
    \/ PostInit
    \/ select_work_zone_optimization

SpecOptimization == InitWork /\ [][NextOptimization]_vars

\* One WorkZoneAssignment object on which both strategies are called, in any
\* order and any number of times
NextWork ==
    \/ NextIterative
    \/ select_work_zone_optimization

\* Objects whose activities all start from o1 with the feasible zones d1, d2
InitWorkBoth ==
    /\ InitWork
    /\ \A i \in 1..Len(activities_to_assign) :
          activities_to_assign[i] = <<[origin |-> "o1", zones |-> <<"d1", "d2">>]>>

SpecWork == InitWorkBoth /\ [][NextWork]_vars

Solved == pc = "done" /\ args.method = "optimization" /\ result.status = "Optimal"

\* Rows of the returned frame that assign the OD pair od
RowsOf(od) ==
    {k \in 1..Len(result.value) :
        result.value[k].home_zone = od[1] /\ result.value[k].assigned_zone = od[2]}

\* C4 (as claimed): when select_work_zone_optimization succeeds, every activity
\* of activities_to_assign appears in exactly one result row, and its assigned
\* zone is a member of its feasible-zone list.
C4_OptimizationOneRowPerActivity ==
    Solved =>
        /\ Len(result.value) = Len(activities_to_assign)
        /\ \A i \in 1..Len(activities_to_assign) :
              /\ Cardinality({k \in 1..Len(result.value) :
                                 result.value[k].person_id = i}) = 1
              /\ \A k \in 1..Len(result.value) :
                    result.value[k].person_id = i =>
                        \E o \in 1..Len(activities_to_assign[i]) :
                            result.value[k].assigned_zone
                                \in Range(activities_to_assign[i][o].zones)

\* Some assignment of every activity to one of its feasible destinations gives
\* every OD pair of actual_flows exactly its flow.
ExactAssignmentExists ==
    \E g \in [1..Len(activities_to_assign) -> Dests] :
        /\ \A i \in 1..Len(activities_to_assign) :
              /\ Len(activities_to_assign[i]) = 1
              /\ g[i] \in Range(activities_to_assign[i][1].zones)
        /\ \A od \in DOMAIN actual_flows :
              Cardinality({i \in 1..Len(activities_to_assign) :
                  activities_to_assign[i][1].origin = od[1] /\ g[i] = od[2]})
                = actual_flows[od]

\* Activity i has a feasible destination that forms an OD pair of actual_flows
HasFlowDestination(i) ==
    /\ Len(activities_to_assign[i]) = 1
    /\ \E z \in Range(activities_to_assign[i][1].zones) :
          <<activities_to_assign[i][1].origin, z>> \in DOMAIN actual_flows

\* Some assignment of every activity that has a feasible destination among the
\* OD pairs of actual_flows to one such destination (the other activities
\* left out) gives every OD pair exactly its flow.
ExactFlowAssignmentExists ==
    \E g \in [1..Len(activities_to_assign) -> Dests \cup {None}] :
        /\ \A i \in 1..Len(activities_to_assign) :
              IF HasFlowDestination(i)
              THEN /\ g[i] \in Range(activities_to_assign[i][1].zones)
                   /\ <<activities_to_assign[i][1].origin, g[i]>>
                         \in DOMAIN actual_flows
              ELSE g[i] = None
        /\ \A od \in DOMAIN actual_flows :
              Cardinality({i \in 1..Len(activities_to_assign) :
                  /\ g[i] # None
                  /\ activities_to_assign[i][1].origin = od[1]
                  /\ g[i] = od[2]})
                = actual_flows[od]

\* The returned assignment reproduces the actual flows: zero deviations
ReproducesFlows ==
    /\ \A od \in DOMAIN actual_flows :
          /\ Cardinality(RowsOf(od)) = actual_flows[od]
          /\ result.abs_dev[od] = 0
    /\ result.max_dev = 0

C14_NonOptimalReturnsEmpty ==
    (pc = "done" /\ args.method = "optimization" /\ result.status # "Optimal") =>
        /\ result.kind = "return"
        /\ result.value = <<>>

\* C14 witness: the solve of a problem with two constrained activities ended
\* Not Solved and the returned frame has no rows.
C14_Witness ==
    /\ pc = "done"
    /\ args.method = "optimization"
    /\ result.status = "Not Solved"
    /\ Len(ConstrainedItems(activities_to_assign, percentages)) = 2
    /\ result.value = <<>>

\* The (activity, origin) items with a feasible zone whose pair has a flow:
\* the ones for which the constraint "exactly one indicator is 1" is added
HasIndicator(q) ==
    \E z \in Range(activities_to_assign[q[1]][q[2]].zones) :
        <<activities_to_assign[q[1]][q[2]].origin, z>> \in DOMAIN percentages

\* C29: the constraint system select_work_zone_optimization builds is
\* satisfiable for every input: there is a choice of one indicator for every
\* constrained activity, with deviation values and a max_dev that meet the
\* deviation constraints, so the solve never ends Infeasible and an empty
\* result never comes from infeasibility.
C29_ConstraintsSatisfiable ==
    (pc \in {"ready", "done"}) =>
        LET items == ConstrainedItems(activities_to_assign, percentages)
        IN  /\ \A j \in 1..Len(items) : items[j].vars # <<>>
            /\ Len(items) = Cardinality({k \in 1..Len(LoopPairs(activities_to_assign)) :
                                  HasIndicator(LoopPairs(activities_to_assign)[k])})
            /\ \E sol \in [1..Len(items) -> Dests] :
                  /\ \A j \in 1..Len(items) :
                        Cardinality({i \in 1..Len(items[j].vars) :
                                        items[j].vars[i] = sol[j]}) = 1
                  /\ \A up \in BOOLEAN :
                        LET devs == AbsDevs(items, sol, up, actual_flows, total_flows)
                        IN  \A od \in DOMAIN devs :
                               devs[od] >= 0 /\ MaxDev(devs) >= devs[od]
            /\ (pc = "done" /\ args.method = "optimization") =>
                  result.status # "Infeasible"

\* C29 witness: one activity has a feasible zone with a flow and the other
\* only a zone without one (it gets no indicator and no constraint); the
\* solve ended Optimal with a row for the first.
C29_Witness ==
    /\ pc = "done"
    /\ args.method = "optimization"
    /\ result.status = "Optimal"
    /\ Len(LoopPairs(activities_to_assign)) = 2
    /\ HasIndicator(LoopPairs(activities_to_assign)[1])
    /\ ~HasIndicator(LoopPairs(activities_to_assign)[2])
    /\ ItemAt(activities_to_assign, 2).feasible_zones # <<>>
    /\ Len(result.value) = 1

\* C28: select_work_zone_iterative never changes activities_to_assign,
\* actual_flows, total_flows or percentages, and changes remaining_flows only
\* at the pair chosen by a weighted selection (a "Random" or null assignment
\* changes nothing); select_work_zone_optimization changes none of the five,
\* remaining_flows included.
C28_StrategiesFrame ==
    [][Constructed =>
          /\ activities_to_assign' = activities_to_assign
          /\ actual_flows' = actual_flows
          /\ total_flows' = total_flows
          /\ percentages' = percentages
          /\ DOMAIN remaining_flows' = DOMAIN remaining_flows
          /\ \A od \in DOMAIN remaining_flows :
                remaining_flows'[od] # remaining_flows[od] =>
                    pc = "iterative" /\ ChoseWeighted(od)
          /\ (pc \in {"ready", "done"} /\ pc' = "done") =>
                remaining_flows' = remaining_flows]_vars

\* C28 witness: the optimization has solved on an object whose flow to d1 an
\* earlier iterative call had used up, and the flows are as that call left
\* them.
C28_Witness ==
    /\ pc = "done"
    /\ args.method = "optimization"
    /\ result.status = "Optimal"
    /\ Len(result.value) = 2
    /\ <<"o1", "d1">> \in DOMAIN actual_flows
    /\ actual_flows[<<"o1", "d1">>] = 2
    /\ remaining_flows[<<"o1", "d1">>] = 0
    /\ weighted_made[<<"o1", "d1">>] = 2

(***************************************************************************)
(* utils.py : households_with_common_travel_days                           *)
(* A TravDay value is a day number or a missing value: pd.NA (one object,  *)
(* whose == gives pd.NA and whose truth value raises TypeError) or a float *)
(* NaN (unequal to everything, found in a set by identity only).           *)
(***************************************************************************)
Day(d) == [missing |-> "no", day |-> d]
PdNA == [missing |-> "pd.NA", day |-> 0]
NaNDay == [missing |-> "nan", day |-> 0]

\* groupby(["HouseholdID", "IndividualID"]): the individuals of a household
IndividualsOf(nts_trips, h) ==
    {r.IndividualID : r \in {t \in nts_trips : t.HouseholdID = h}}

\* ["TravDay"].apply(list).map(set) : the set of days of an individual
DaysOf(nts_trips, h, i) ==
    {r.TravDay : r \in {t \in nts_trips : t.HouseholdID = h /\ t.IndividualID = i}}

\* set.intersection(*sets_of_days): the values held by every individual's set.
\* NaN objects of different individuals are one object only if nan_same.
CommonDays(nts_trips, h, nan_same) ==
    LET people == IndividualsOf(nts_trips, h)
        everywhere == {v \in UNION {DaysOf(nts_trips, h, i) : i \in people} :
                          \A i \in people : v \in DaysOf(nts_trips, h, i)}
    IN  IF Cardinality(people) > 1 /\ ~nan_same
        THEN everywhere \ {NaNDay}
        ELSE everywhere

\* day in days, for a list of integers: each element is compared with ==
\* and the outcome is used as a truth value
InDays(v, days) ==
    IF v.missing = "no" THEN v.day \in days
    ELSE FALSE

\* `day in days` raises: pd.NA == x is pd.NA, which has no truth value
InDaysRaises(v, days) == v.missing = "pd.NA" /\ days # {}

\* [day for day in common_days if day in days], [] for None
FilteredDays(common_days, days) == {v \in common_days : InDays(v, days)}

\* The household ids in the order of the groupby index (ascending)
RECURSIVE SortedList(_)
SortedList(S) ==
    IF S = {} THEN <<>>
    ELSE LET least == CHOOSE x \in S : \A y \in S : x <= y
         IN  <<least>> \o SortedList(S \ {least})

households_with_common_travel_days(nts_trips, days, nan_same) ==
    LET households == {t.HouseholdID : t \in nts_trips}
    IN  IF \E h \in households :
              \E v \in CommonDays(nts_trips, h, nan_same) : InDaysRaises(v, days)
        THEN Raise("TypeError")
        ELSE Return(SortedList({h \in households :
                 FilteredDays(CommonDays(nts_trips, h, nan_same), days) # {}}))

MaxTrips == 3          \* rows of nts_trips

TravDays == {Day(1), Day(2), PdNA, NaNDay}

\* Rows of nts_trips: individuals 1 and 2 live in household 1, 3 in household 2
TripRows ==
    {t \in [HouseholdID : {1, 2}, IndividualID : {1, 2, 3}, TravDay : TravDays] :
        t.HouseholdID = (IF t.IndividualID = 3 THEN 2 ELSE 1)}

DayLists == SUBSET {1, 2}

InitHouseholds ==
    /\ pc = "call"
    /\ activity = Idle
    /\ activities_per_zone = Idle
    /\ travel_times = Idle
    /\ ties = Idle
    /\ travel_times_est = Idle
    /\ possible_zones = Idle
    /\ facilities_gdf = Idle
    /\ args = Idle
    /\ result = Idle
    /\ activities_to_assign = Idle
    /\ actual_flows = Idle
    /\ remaining_flows = Idle
    /\ total_flows = Idle
    /\ percentages = Idle
    /\ assignments = Idle
    /\ cursor = 0
    /\ weighted_made = Idle
    /\ activity_chains = Idle
    /\ results = Idle

HouseholdsCall ==
    /\ pc = "call"
    /\ \E trips \in SubsetsUpTo(TripRows, MaxTrips), days \in DayLists,
          nan_same \in BOOLEAN :
         /\ args' = [nts_trips |-> trips, days |-> days, nan_same |-> nan_same]
         /\ result' = households_with_common_travel_days(trips, days, nan_same)
    /\ pc' = "done"
    /\ UNCHANGED otherVars
    /\ UNCHANGED workVars

NextHouseholds == HouseholdsCall

SpecHouseholds == InitHouseholds /\ [][NextHouseholds]_vars

\* Household h has a day of `days` that is a travel day of all its individuals
HasCommonDayIn(h) ==
    \E d \in args.days :
        \A t \in args.nts_trips :
            t.HouseholdID = h =>
                \E u \in args.nts_trips :
                    /\ u.HouseholdID = h
                    /\ u.IndividualID = t.IndividualID
                    /\ u.TravDay = Day(d)

\* C18 (as claimed): households_with_common_travel_days returns, in ascending
\* household-id order, exactly the households for which at least one day of
\* `days` is a travel day of every individual; households with a missing
\* travel day, without a common day, or with common days outside `days` only,
\* are not returned.
C18_ExactlyHouseholdsWithCommonDay ==
    pc = "done" =>
        /\ result.kind = "return"
        /\ \A k \in 1..Len(result.value) : HasCommonDayIn(result.value[k])
        /\ \A t \in args.nts_trips :
              HasCommonDayIn(t.HouseholdID) =>
                  \E k \in 1..Len(result.value) : result.value[k] = t.HouseholdID
        /\ \A j, k \in 1..Len(result.value) :
              j < k => result.value[j] < result.value[k]

(***************************************************************************)
(* primary_feasible.py : get_possible_zones                                *)
(* A "combination" string is the sequence of its "_"-separated tokens.     *)
(***************************************************************************)
\* acbm.assigning.utils._map_day_to_wkday_binary: 1 for Monday..Friday
_map_day_to_wkday_binary(day) == IF day \in 1..5 THEN 1 ELSE 0

\* acbm.assigning.utils._map_time_to_day_part: start minute -> part of the day
_map_time_to_day_part(tst) ==
    IF tst >= 300 /\ tst < 720 THEN "morning"
    ELSE IF tst >= 720 /\ tst < 1080 THEN "afternoon"
    ELSE IF tst >= 1080 /\ tst < 1440 THEN "evening"
    ELSE "night"

\* Variant that writes the weekday flag into TravDay as well.
DerivedColumnsOverTravDay(ac) ==
    [i \in 1..Len(ac) |->
        [c \in DOMAIN ac[i] \cup {"weekday", "time_of_day"} |->
            IF c \in {"weekday", "TravDay"}
            THEN _map_day_to_wkday_binary(ac[i].TravDay)
            ELSE IF c = "time_of_day" THEN _map_time_to_day_part(ac[i].tst)
            ELSE ac[i][c]]]

\* activity_chains["weekday"] = ... ; activity_chains["time_of_day"] = ... :
\* the caller's table with the two columns set
WithDerivedColumns(ac) ==
    [i \in 1..Len(ac) |->
        [c \in DOMAIN ac[i] \cup {"weekday", "time_of_day"} |->
            IF c = "weekday" THEN _map_day_to_wkday_binary(ac[i].TravDay)
            ELSE IF c = "time_of_day" THEN _map_time_to_day_part(ac[i].tst)
            ELSE ac[i][c]]]

\* Series.unique(): the values in the order of their first appearance
RECURSIVE Unique(_)
Unique(q) ==
    IF q = <<>> THEN <<>>
    ELSE LET rest == Unique(SubSeq(q, 1, Len(q) - 1))
         IN  IF q[Len(q)] \in Range(rest) THEN rest ELSE Append(rest, q[Len(q)])

\* x.split("_")[0]
SplitMode(combination) == combination[1]

\* str.contains(pattern): the tokens of pattern appear in a row
ContainsTokens(combination, pattern) ==
    \E i \in 1..(Len(combination) - Len(pattern) + 1) :
        \A j \in 1..Len(pattern) : combination[i + j - 1] = pattern[j]

\* The partitions of one mode, in loop order: for pt one per time of day and
\* day type, for any other mode one
PartitionsOfMode(mode, times, days) ==
    IF mode = "pt"
    THEN [k \in 1..(Len(times) * Len(days)) |->
            [mode |-> mode, by_time |-> TRUE,
             time_of_day |-> times[((k - 1) \div Len(days)) + 1],
             day_type |-> days[((k - 1) % Len(days)) + 1]]]
    ELSE <<[mode |-> mode, by_time |-> FALSE, time_of_day |-> "", day_type |-> 0]>>

RECURSIVE PartitionsFrom(_, _, _)
PartitionsFrom(modes, times, days) ==
    IF modes = <<>> THEN <<>>
    ELSE PartitionsOfMode(Head(modes), times, days)
           \o PartitionsFrom(Tail(modes), times, days)

\* The loops over list_of_modes, list_of_times_of_day and day_types
Partitions(ac) ==
    PartitionsFrom(Unique([i \in 1..Len(ac) |-> ac[i].mode]),
                   Unique([i \in 1..Len(ac) |-> ac[i].time_of_day]),
                   Unique([i \in 1..Len(ac) |-> ac[i].weekday]))

\* Variant that filters the pt edges by day type only.
EdgesOfPartitionAnyTime(tt, p) ==
    LET travel_times_filtered_mode ==
            SelectSeq(tt, LAMBDA e : SplitMode(e.combination) = p.mode)
    IN  IF p.by_time
        THEN SelectSeq(travel_times_filtered_mode, LAMBDA e :
                ContainsTokens(e.combination,
                    <<"pt", IF p.day_type = 1 THEN "wkday" ELSE "wkend">>))
        ELSE travel_times_filtered_mode

\* travel_times_filtered_mode_time_day of the partition
EdgesOfPartition(tt, p) ==
    LET travel_times_filtered_mode ==
            SelectSeq(tt, LAMBDA e : SplitMode(e.combination) = p.mode)
    IN  IF p.by_time
        THEN SelectSeq(travel_times_filtered_mode, LAMBDA e :
                /\ ContainsTokens(e.combination,
                      <<"pt", IF p.day_type = 1 THEN "wkday" ELSE "wkend">>)
                /\ ContainsTokens(e.combination, <<p.time_of_day>>))
        ELSE travel_times_filtered_mode

\* activity_chains_filtered of the partition (positions of its rows)
ChainsOfPartition(ac, p) ==
    {i \in 1..Len(ac) :
        /\ ac[i].mode = p.mode
        /\ p.by_time => (ac[i].time_of_day = p.time_of_day
                          /\ ac[i].weekday = p.day_type)}

\* possible_zones of the partition: _get_possible_zones applied to each of its
\* rows, keyed by the row label; nothing when either table is empty
PartitionZones(ac, tt, apz, filter_by_activity, time_tolerance, kind, p) ==
    IF EdgesOfPartition(tt, p) = <<>> \/ ChainsOfPartition(ac, p) = {}
    THEN EmptyDict
    ELSE [k \in {ac[i].name : i \in ChainsOfPartition(ac, p)} |->
            LET i == CHOOSE j \in ChainsOfPartition(ac, p) : ac[j].name = k
            IN  _get_possible_zones(ac[i], EdgesOfPartition(tt, p), apz,
                                    filter_by_activity, time_tolerance, kind)]

\* results.update(possible_zones)
Update(old, new) ==
    [k \in DOMAIN old \cup DOMAIN new |-> IF k \in DOMAIN new THEN new[k] ELSE old[k]]

MaxChains == 2         \* rows of the activity table
MaxModeEdges == 2      \* rows of the travel-time table with combinations

\* Rows of the activity table before the call (no derived columns): Monday
\* morning by car or pt, Saturday morning or Monday evening by pt
ChainRows ==
    {r \in [OA21CD : {"Z1"}, mode : {"car", "pt"}, TripTotalTime : {10},
             education_type : {"education_school"}, TravDay : {1, 6},
             tst : {480, 1200}] :
        /\ r.mode = "car" => (r.TravDay = 1 /\ r.tst = 480)
        /\ r.TravDay = 6 => r.tst = 480}

\* Tables whose row labels are 1..n
ChainTables ==
    {[i \in 1..Len(q) |->
         [name |-> i, OA21CD |-> q[i].OA21CD, mode |-> q[i].mode,
          TripTotalTime |-> q[i].TripTotalTime,
          education_type |-> q[i].education_type, TravDay |-> q[i].TravDay,
          tst |-> q[i].tst]] : q \in SeqsUpTo(ChainRows, MaxChains)}

Combinations ==
    {<<"car">>, <<"pt", "wkday", "morning">>, <<"pt", "wkend", "morning">>,
     <<"pt", "wkday", "evening">>}

\* Edges from Z1: 12 minutes to Z2 by car and on weekday mornings by pt,
\* 15 minutes to Z3 by pt at the other times
ModeEdges ==
    {e \in [OA21CD_from : {"Z1"}, OA21CD_to : {"Z2", "Z3"},
             travel_time_p50 : {12, 15}, combination : Combinations] :
        /\ e.travel_time_p50 = (IF e.OA21CD_to = "Z2" THEN 12 ELSE 15)
        /\ e.OA21CD_to = "Z2"
              <=> e.combination \in {<<"car">>, <<"pt", "wkday", "morning">>}}

InitGetPossibleZones ==
    /\ pc = "call"
    /\ activity_chains \in ChainTables
    /\ travel_times \in SeqsUpTo(ModeEdges, MaxModeEdges)
    /\ activities_per_zone =
          {r \in FeasibleSupply : r.OA21CD = "Z3" /\ r.activity = "education_school"}
    /\ ties \in TieOrders
    /\ results = Idle
    /\ activity = Idle
    /\ travel_times_est = Idle
    /\ possible_zones = Idle
    /\ facilities_gdf = Idle
    /\ args = Idle
    /\ result = Idle
    /\ activities_to_assign = Idle
    /\ actual_flows = Idle
    /\ remaining_flows = Idle
    /\ total_flows = Idle
    /\ percentages = Idle
    /\ assignments = Idle
    /\ cursor = 0
    /\ weighted_made = Idle

partitionFrame ==
    <<activity, travel_times, activities_per_zone, ties, travel_times_est,
      possible_zones, facilities_gdf, activities_to_assign, actual_flows,
      remaining_flows, total_flows, percentages, assignments, weighted_made>>

\* Lines 49-64: the derived columns are set on the caller's table, results = {}
GetPossibleZonesStart ==
    /\ pc = "call"
    /\ \E f \in BOOLEAN, tol \in {20} :
         args' = [filter_by_activity |-> f, time_tolerance |-> tol]
    /\ activity_chains' = WithDerivedColumns(activity_chains)
    /\ results' = EmptyDict
    /\ cursor' = 0
    /\ pc' = "partitions"
    /\ UNCHANGED <<partitionFrame, result>>

\* One pass of the innermost loop body
ProcessPartition ==
    /\ pc = "partitions"
    /\ cursor < Len(Partitions(activity_chains))
    /\ results' = Update(results,
          PartitionZones(activity_chains, travel_times, activities_per_zone,
                         args.filter_by_activity, args.time_tolerance, ties,
                         Partitions(activity_chains)[cursor + 1]))
    /\ cursor' = cursor + 1
    /\ UNCHANGED <<partitionFrame, pc, args, result, activity_chains>>

\* return results
GetPossibleZonesReturn ==
    /\ pc = "partitions"
    /\ cursor = Len(Partitions(activity_chains))
    /\ result' = results
    /\ pc' = "done"
    /\ UNCHANGED <<partitionFrame, args, cursor, activity_chains, results>>

NextGetPossibleZones ==
    \/ GetPossibleZonesStart
    \/ ProcessPartition
    \/ GetPossibleZonesReturn

SpecGetPossibleZones == InitGetPossibleZones /\ [][NextGetPossibleZones]_vars

\* The table has its derived columns and the call has started
Partitioned == pc \in {"partitions", "done"}

\* The edges of the row's own mode; for pt of its own mode, day type and time
\* of day
OwnEdges(r) ==
    SelectSeq(travel_times, LAMBDA e :
        IF r.mode = "pt"
        THEN e.combination = <<"pt", IF r.weekday = 1 THEN "wkday" ELSE "wkend",
                               r.time_of_day>>
        ELSE e.combination = <<r.mode>>)

\* What _get_possible_zones returns for the row on its own edges
OwnZones(r) ==
    _get_possible_zones(r, OwnEdges(r), activities_per_zone,
                        args.filter_by_activity, args.time_tolerance, ties)

\* Every row belongs to exactly one partition of the loop
InExactlyOnePartition ==
    \A i \in 1..Len(activity_chains) :
        Cardinality({k \in 1..Len(Partitions(activity_chains)) :
            i \in ChainsOfPartition(activity_chains,
                                    Partitions(activity_chains)[k])}) = 1

\* Every entry written so far is what _get_possible_zones returns for its row
\* on the row's own edges
EntriesAreOwn ==
    \A k \in DOMAIN results :
        \E i \in 1..Len(activity_chains) :
            /\ activity_chains[i].name = k
            /\ OwnEdges(activity_chains[i]) # <<>>
            /\ results[k] = OwnZones(activity_chains[i])

\* C15 (as claimed): every activity is processed in exactly one partition and
\* its entry in the result equals what _get_possible_zones returns for it on
\* the edges of its own mode (for pt: mode, time of day and day type).
C15_EveryActivityHasOwnEntry ==
    pc = "done" =>
        \A i \in 1..Len(activity_chains) :
            /\ activity_chains[i].name \in DOMAIN result
            /\ result[activity_chains[i].name] = OwnZones(activity_chains[i])

\* C15 (amended): every activity belongs to exactly one partition; when the
\* travel-time table has an edge of its own mode (for pt: mode, time of day
\* and day type) its entry in the result equals what _get_possible_zones
\* returns for it on those edges, otherwise it has no entry; at every point
\* of the loop each entry written so far has that value, so none is
\* overwritten or changed.
C15_PartitioningNeutral ==
    Partitioned =>
        /\ InExactlyOnePartition
        /\ EntriesAreOwn
        /\ pc = "done" =>
              /\ result = results
              /\ \A i \in 1..Len(activity_chains) :
                    IF OwnEdges(activity_chains[i]) = <<>>
                    THEN activity_chains[i].name \notin DOMAIN result
                    ELSE /\ activity_chains[i].name \in DOMAIN result
                         /\ result[activity_chains[i].name]
                               = OwnZones(activity_chains[i])

\* C15 witness: two pt activities of the same morning, one on a weekday and
\* one at the weekend, each with edges of its own, got different entries.
C15_Witness ==
    /\ pc = "done"
    /\ Len(activity_chains) = 2
    /\ \A i \in 1..2 : /\ activity_chains[i].mode = "pt"
                        /\ activity_chains[i].time_of_day = "morning"
                        /\ OwnEdges(activity_chains[i]) # <<>>
    /\ activity_chains[1].weekday # activity_chains[2].weekday
    /\ DOMAIN result = {1, 2}
    /\ result[1] # result[2]

\* C16 (as claimed): get_possible_zones has no side effects on its inputs: the
\* activity table, the travel-time table and the supply table hold the same
\* rows, columns and values after the call as before it.
C16_InputsUnchanged ==
    [][/\ activity_chains' = activity_chains
       /\ travel_times' = travel_times
       /\ activities_per_zone' = activities_per_zone]_vars

\* C16 (amended): get_possible_zones leaves the travel-time table and the
\* supply table as they were, and keeps the rows of the activity table and
\* the values of its columns; its one side effect on the inputs is that the
\* columns weekday and time_of_day are set on the activity table.
C16_OnlyDerivedColumnsAdded ==
    [][/\ travel_times' = travel_times
       /\ activities_per_zone' = activities_per_zone
       /\ Len(activity_chains') = Len(activity_chains)
       /\ \A i \in 1..Len(activity_chains) :
             /\ DOMAIN activity_chains'[i]
                   = DOMAIN activity_chains[i] \cup {"weekday", "time_of_day"}
             /\ \A c \in DOMAIN activity_chains[i] \ {"weekday", "time_of_day"} :
                   activity_chains'[i][c] = activity_chains[i][c]]_vars

\* C16 witness: the call has returned and the caller's table of two rows
\* carries the two derived columns.
C16_Witness ==
    /\ pc = "done"
    /\ Len(activity_chains) = 2
    /\ \A i \in 1..2 : {"weekday", "time_of_day"} \subseteq DOMAIN activity_chains[i]
    /\ activity_chains[1].weekday = 0
    /\ activity_chains[2].time_of_day = "evening"

(***************************************************************************)
(* scripts/3.2.1_assign_primary_zone_edu.py : main, zone stages            *)
(* activity_chains is the table activity_chains_edu: a sequence of rows,   *)
(* row i having the label i.                                               *)
(***************************************************************************)
\* The row with its "dzone" cell set to v
WithDzone(r, v) ==
    [name |-> r.name, OA21CD |-> r.OA21CD, mode |-> r.mode,
     TripTotalTime |-> r.TripTotalTime, education_type |-> r.education_type,
     dzone |-> v]

\* The row without its "dzone" cell
WithoutDzone(r) ==
    [name |-> r.name, OA21CD |-> r.OA21CD, mode |-> r.mode,
     TripTotalTime |-> r.TripTotalTime, education_type |-> r.education_type]

\* Variant of the mask that selects every row.
MaskAll(ac) == 1..Len(ac)

\* mask = activity_chains_edu["dzone"] == "NA"
Mask(ac) == {i \in 1..Len(ac) : ac[i].dzone = "NA"}

\* activity_chains_edu.apply(lambda row: select_zone(..., weighting=
\* "floor_area"), axis=1): the columns the apply can produce
SelectedColumns(ac, pz, apz) ==
    {col \in [1..Len(ac) -> Zones \cup {NA}] :
        \A i \in 1..Len(ac) :
            Return(col[i]) \in select_zone(ac[i], pz, apz, "floor_area")}

\* fill_missing_zones(activity=row, ...) for the row: use_mode is left at its
\* default
FillOutcome(row, est, apz) == fill_missing_zones(row, est, apz, FALSE)

\* Inputs of the stages
PipelineTables ==
    {[i \in 1..n |->
        [name |-> i, OA21CD |-> "Z1", mode |-> "car", TripTotalTime |-> 10,
         education_type |-> "education_school"]] : n \in 0..MaxChains}

\* possible_zones_school: some labels are missing, the others map to {} or to
\* the list of zones found from Z1
PipelinePossibleZones(n) ==
    UNION {[K -> {EmptyDict, [o \in {"Z1"} |-> <<"Z2">>],
                  [o \in {"Z1"} |-> <<"Z2", "Z3">>]}] : K \in SUBSET (1..n)}

PipelineSupply ==
    [OA21CD : {"Z2", "Z3"}, activity : {"education_school", "shop"},
     counts : {1}, floor_area : {1}]

\* travel_time_estimates: entries from Z1, one estimate for every mode
PipelineEntries ==
    {[key |-> <<"Z1", z>>, value |-> [k \in TimeKeys |-> t]] :
        z \in {"Z2", "Z3"}, t \in EstTimes}

PipelineEstimates ==
    {q \in SeqsUpTo(PipelineEntries, MaxEstimates) :
        \A i, j \in 1..Len(q) : i # j => q[i].key # q[j].key}

InitPipeline ==
    /\ pc = "select"
    /\ activity_chains \in PipelineTables
    /\ possible_zones \in PipelinePossibleZones(Len(activity_chains))
    /\ activities_per_zone \in SubsetsUpTo(PipelineSupply, MaxSupplyRows)
    /\ travel_times_est \in PipelineEstimates
    /\ results = EmptyDict
    /\ result = Idle
    /\ activity = Idle
    /\ travel_times = Idle
    /\ ties = Idle
    /\ facilities_gdf = Idle
    /\ args = Idle
    /\ activities_to_assign = Idle
    /\ actual_flows = Idle
    /\ remaining_flows = Idle
    /\ total_flows = Idle
    /\ percentages = Idle
    /\ assignments = Idle
    /\ cursor = 0
    /\ weighted_made = Idle

\* activity_chains_edu["dzone"] = activity_chains_edu.apply(select_zone ...)
SelectStage ==
    /\ pc = "select"
    /\ \E col \in SelectedColumns(activity_chains, possible_zones,
                                  activities_per_zone) :
         activity_chains' =
             [i \in 1..Len(activity_chains) |-> WithDzone(activity_chains[i], col[i])]
    /\ pc' = "fill"
    /\ UNCHANGED <<results, result, possible_zones, activities_per_zone,
                   travel_times_est>>
    /\ UNCHANGED <<activity, travel_times, ties, facilities_gdf, args>>
    /\ UNCHANGED workVars

\* activity_chains_edu.loc[mask, "dzone"] = activity_chains_edu.loc[mask]
\*     .apply(fill_missing_zones ...): the apply calls the function on the
\* masked rows, an exception of a call ends the script, and the assignment
\* writes the returned values to the masked rows by label
FillStage ==
    /\ pc = "fill"
    /\ LET mask == Mask(activity_chains)
           out == [i \in mask |-> FillOutcome(activity_chains[i], travel_times_est,
                                              activities_per_zone)]
       IN  IF \E i \in mask : out[i].kind = "raise"
           THEN /\ pc' = "error"
                /\ result' = Raise("ValueError")
                /\ UNCHANGED <<activity_chains, results>>
           ELSE /\ pc' = "done"
                /\ results' = [i \in mask |-> out[i].value]
                /\ activity_chains' =
                      [i \in 1..Len(activity_chains) |->
                          IF i \in mask
                          THEN WithDzone(activity_chains[i], out[i].value)
                          ELSE activity_chains[i]]
                /\ UNCHANGED result
    /\ UNCHANGED <<possible_zones, activities_per_zone, travel_times_est>>
    /\ UNCHANGED <<activity, travel_times, ties, facilities_gdf, args>>
    /\ UNCHANGED workVars

NextPipeline == SelectStage \/ FillStage

SpecPipeline == InitPipeline /\ [][NextPipeline]_vars

====
